---- MODULE Spec2Model ----
(***************************************************************************)
(* Model of the prospectus retrieval tool and of its two conversation      *)
(* drivers:                                                                *)
(*   - the simulated text-protocol driver _chat_with_deepseek_reasoner     *)
(*     (variant "ds", src/demo_deepseek_simulated_calling.py),             *)
(*   - the structured action-calling driver _chat_with_tools               *)
(*     (variant "glm", src/demo_glm_function_calling.py),                  *)
(*   - the search entry point call_prospectus_search /                     *)
(*     ProspectusSearchTool.search_prospectus.                             *)
(*                                                                         *)
(* The completion model, the tool callable handed to a driver and the      *)
(* storage backends are the environment: each of their answers is a        *)
(* nondeterministic choice from a small set.                               *)
(*                                                                         *)
(* Text is modelled as a sequence of tokens.  For a model reply of the     *)
(* text protocol the tokens are                                            *)
(*   "TC"        the literal TOOL_CALL:                                    *)
(*   "FA"        the literal FINAL_ANSWER:                                 *)
(*   "Jok"       a brace block {...} that is a JSON object holding         *)
(*               fund_code and search_info, both non-null                  *)
(*   "Jnofund"   a JSON object without the key fund_code                   *)
(*   "Jnullinfo" a JSON object whose search_info is null                   *)
(*   "Jbad"      a brace block that json.loads rejects                     *)
(*   "txt"       any other non-blank text                                  *)
(***************************************************************************)
EXTENDS Integers, Sequences, FiniteSets, TLC

(* ----------------------------- bounds ---------------------------------- *)
MaxRounds == 3
MaxToolCalls == 2
MaxQueryLen == 2
MaxBound == 2
\* the longest chunk list handed to a chunk utility
MaxChunks == 2
\* the longest result list a backend answers with
MaxResults == 2
\* the largest number of rows of the catalog table
MaxRows == 2
\* the most tokens in a reply of the completion model to the retrieval
MaxReplyLen == 3

(* ------------------------- driver state -------------------------------- *)
VARIABLES
  variant,              \* "ds" | "glm" : which driver runs ("off": none)
  max_rounds,           \* the max_rounds argument
  pc,                   \* position of the driver
  round_index,          \* the for-loop variable round_index
  messages,             \* the history sent to the model
  conversation_rounds,  \* ds: the per-round records
  tool_calls_made,      \* ds: the records of executed tool calls
  pending,              \* tool calls of the current reply still to run
  tool_used,            \* glm: tool_used
  result,               \* what the driver hands to its caller
  model_calls,          \* number of client.chat.completions.create calls
  tool_execs,           \* number of tool executions started
  round_execs,          \* tool executions started in the current round
  last_reply,           \* the reply of the latest model call
  last_event            \* what the latest step was

(* ------------------------- search state -------------------------------- *)
VARIABLES
  s_entry,              \* the entry point called ("off": none)
  s_args,               \* the arguments handed to the entry point
  s_pc,                 \* position inside the entry point
  s_intent,             \* call_prospectus_search: intent
  s_params,             \* the parameters of search_prospectus
  s_source_file,        \* search_prospectus: source_file
  s_path,               \* the retrieval path search_prospectus took
  s_calls,              \* the backends called so far
  s_result              \* what the entry point hands to its caller

svars == << s_entry, s_args, s_pc, s_intent, s_params, s_source_file,
            s_path, s_calls, s_result >>

dvars == << variant, max_rounds, pc, round_index, messages,
            conversation_rounds, tool_calls_made, pending, tool_used, result,
            model_calls, tool_execs, round_execs, last_reply, last_event >>

(* ---------------------- one component on its own ------------------------ *)
VARIABLES
  u_call,               \* the component called and its arguments ("off": none)
  u_pc,                 \* position inside the component
  u_calls,              \* the backends the component called, in order
  u_result              \* what the component hands to its caller

uvars == << u_call, u_pc, u_calls, u_result >>

vars == << dvars, svars, uvars >>

\* no component is called on its own
ComponentOff ==
  /\ u_call = [op |-> "off"]
  /\ u_pc = "off"
  /\ u_calls = << >>
  /\ u_result = << >>

(* --------------------------- text values ------------------------------- *)
TOOL_NAME == "prospectus_search"

\* final_answer of the budget-exhausted result of the ds driver
SentinelAnswer == << "MAX_ROUNDS_NO_COMPLETE_ANSWER" >>

EmptyText == << >>

\* content values: kind "none" (None), "str" (a string, items = its tokens),
\* "list" (a list of dict parts, items = the type of each part)
NoneContent == [kind |-> "none", items |-> << >>]
Str(items) == [kind |-> "str", items |-> items]
Parts(items) == [kind |-> "list", items |-> items]

NoId == << 0, 0 >>

Message(role, content) ==
  [role |-> role, content |-> content, tool_calls |-> << >>, tool_call_id |-> NoId]

NoReply == [content |-> NoneContent, reasoning |-> EmptyText, tool_calls |-> << >>]

NoResult == [kind |-> "none"]

Last(s) == s[Len(s)]

Min(S) == CHOOSE x \in S : \A y \in S : x <= y

RECURSIVE DropIn(_, _)
\* the subsequence of s of the elements that do not lie in S
DropIn(s, S) ==
  IF s = << >> THEN << >>
  ELSE IF Head(s) \in S THEN DropIn(Tail(s), S)
       ELSE << Head(s) >> \o DropIn(Tail(s), S)

(* ------------- the text protocol: _parse_reasoner_output --------------- *)
BraceBlocks == { "Jok", "Jnofund", "Jnullinfo", "Jbad" }

\* json.loads of a brace block: ok = FALSE is json.JSONDecodeError; a key is
\* "value" (present, non-null), "null" (present, None) or "absent"
JsonLoads(block) ==
  CASE block = "Jok"       -> [ok |-> TRUE, fund_code |-> "value", search_info |-> "value"]
    [] block = "Jnofund"   -> [ok |-> TRUE, fund_code |-> "absent", search_info |-> "value"]
    [] block = "Jnullinfo" -> [ok |-> TRUE, fund_code |-> "value", search_info |-> "null"]
    [] OTHER               -> [ok |-> FALSE, fund_code |-> "absent", search_info |-> "absent"]

\* re.search(r'TOOL_CALL:\s*(\{.*?\})', content): the position of the brace
\* block that directly follows the first TOOL_CALL: that has one; 0 = no match
ToolCallMatch(content) ==
  LET hits == { i \in 1..(Len(content) - 1) :
                  content[i] = "TC" /\ content[i + 1] \in BraceBlocks }
  IN IF hits = {} THEN 0 ELSE Min(hits) + 1

\* MissingParams without the test for None
MissingParamsNoNullTest(tool_call) ==
  { p \in { "fund_code", "search_info" } : tool_call[p] = "absent" }

\* missing_params = [p for p in required_params
\*                   if p not in tool_call or tool_call[p] is None]
MissingParams(tool_call) ==
  { p \in { "fund_code", "search_info" } : tool_call[p] \in { "absent", "null" } }

\* re.search(r'FINAL_ANSWER:\s*(.*)\s*$', content): the position of the first
\* FINAL_ANSWER:; 0 = no match
FinalMatch(content) ==
  LET hits == { i \in 1..Len(content) : content[i] = "FA" }
  IN IF hits = {} THEN 0 ELSE Min(hits)

Parsed(type, tool_call, final_answer, errors) ==
  [type |-> type, tool_call |-> tool_call, final_answer |-> final_answer,
   errors |-> errors]

ParseReasonerOutput(content) ==
  LET tool_match == ToolCallMatch(content)
      final_match == FinalMatch(content)
  IN IF tool_match # 0
       THEN LET tool_call == JsonLoads(content[tool_match])
            IN IF ~tool_call.ok
                 THEN Parsed("error", "None", EmptyText, << "JSON_DECODE_ERROR" >>)
                 ELSE IF MissingParams(tool_call) # {}
                        THEN Parsed("error", "None", EmptyText, << "MISSING_REQUIRED_PARAMS" >>)
                        ELSE Parsed("tool_call", content[tool_match], EmptyText, << >>)
       ELSE IF final_match # 0
              THEN LET final_answer == SubSeq(content, final_match + 1, Len(content))
                   IN IF final_answer = EmptyText
                        THEN Parsed("error", "None", EmptyText, << "EMPTY_FINAL_ANSWER" >>)
                        ELSE Parsed("final_answer", "None", final_answer, << >>)
              ELSE Parsed("format_error", "None", EmptyText, << "NO_TOOL_CALL_OR_FINAL_ANSWER" >>)

(* ------------------- values shared by both drivers --------------------- *)
\* HasBudget with the bound off by one
HasBudgetOffByOne(r, m) == r <= m

\* for round_index in range(1, max_rounds + 1): after r rounds were started
\* the loop has a next round exactly when r < max_rounds
HasBudget(r, m) == r < m

\* what the tool callable of tool_registry can do with its arguments:
\* call_prospectus_search evaluates arguments.get(...) outside any try, so
\* arguments that are not a JSON object always raise; otherwise the callable
\* returns a string or raises
ToolOutcomes(arguments) ==
  IF arguments = "nondict" THEN { "raises" } ELSE { "returns", "raises" }

(* --------------- ds: _chat_with_deepseek_reasoner ---------------------- *)
\* reply texts the model is taken to produce in the text protocol
DSContents ==
  { << >>,
    << "txt" >>,
    << "TC", "Jok" >>,
    << "TC", "Jbad" >>,
    << "TC", "Jnofund" >>,
    << "TC", "Jnullinfo" >>,
    << "TC", "txt" >>,
    << "FA", "txt" >>,
    << "FA" >>,
    << "FA", "txt", "TC", "Jok" >>,
    << "txt", "TC", "Jok", "FA", "txt" >> }

\* message.reasoning_content is "" or a reasoning text
DSReplies ==
  { [content |-> Str(c), reasoning |-> r, tool_calls |-> << >>] :
      c \in DSContents, r \in { EmptyText, << "RSN" >> } }

\* messages.append({"role": "assistant", "content": content})
DSAssistantMessage(reply) == Message("assistant", Str(reply.content.items))

\* DSToolFeedback sent in the role of the structured protocol's tool message
DSToolFeedbackAsToolMessage ==
  Message("tool", Str(<< "TOOL_EXECUTED", "TOOL_RESULT", "CONTINUE_PROMPT" >>))

\* tool_feedback
DSToolFeedback ==
  Message("user", Str(<< "TOOL_EXECUTED", "TOOL_RESULT", "CONTINUE_PROMPT" >>))

\* retry_feedback = f"{error_msg}\n\n..." with error_msg = "tool call failed: " + str(e)
DSRetryFeedback ==
  Message("user", Str(<< "TOOL_CALL_FAILED", "ERROR_TEXT", "RETRY_PROMPT" >>))

\* prompt_msg: the errors followed by the two allowed shapes
DSFormatPrompt(errors) ==
  Message("user", Str(<< "FORMAT_ERROR" >> \o errors
                        \o << "SHAPE_TOOL_CALL", "SHAPE_FINAL_ANSWER" >>))

DSResult(success, error, final_answer, total_rounds) ==
  [kind |-> "dict", success |-> success, error |-> error,
   final_answer |-> final_answer, total_rounds |-> total_rounds]

\* DSFinalResult reporting the rounds before the current one
DSFinalResultStaleRound(parsed, r) ==
  [kind |-> "dict", success |-> TRUE, error |-> "None",
   final_answer |-> parsed.final_answer, total_rounds |-> r - 1]

\* the return of the final_answer branch in round r
DSFinalResult(parsed, r) == DSResult(TRUE, "None", parsed.final_answer, r)

\* DSModelFailResult counting the failed round as completed
DSModelFailResultCountsRound(r) ==
  [kind |-> "dict", success |-> FALSE, error |-> "MODEL_CALL_FAILED",
   final_answer |-> EmptyText, total_rounds |-> r]

\* the return of the except branch of the model call in round r
DSModelFailResult(r) == DSResult(FALSE, "MODEL_CALL_FAILED", EmptyText, r - 1)

\* DSExhaustedResult with an empty answer
DSExhaustedResultEmpty(m) ==
  [kind |-> "dict", success |-> FALSE, error |-> "MAX_ROUNDS_REACHED",
   final_answer |-> EmptyText, total_rounds |-> m]

\* the return after the loop
DSExhaustedResult(m) == DSResult(FALSE, "MAX_ROUNDS_REACHED", SentinelAnswer, m)

RoundData(r, reply, parsed) ==
  [round_number |-> r, response_content |-> reply.content.items,
   parsed_type |-> parsed.type, tool_success |-> "unset"]

SetToolSuccess(rounds, v) ==
  [rounds EXCEPT ![Len(rounds)] = [@ EXCEPT !.tool_success = v]]

DSToolCall == [id |-> NoId, name |-> TOOL_NAME, arguments |-> "obj"]

\* one iteration of the loop up to the point where the tool is called:
\* model call, parse, round record, assistant message, then the branch
DSModelReplies ==
  /\ UNCHANGED << svars, uvars >>
  /\ variant = "ds"
  /\ pc = "awaiting_model"
  /\ HasBudget(round_index, max_rounds)
  /\ \E reply \in DSReplies :
       LET r == round_index + 1
           parsed == ParseReasonerOutput(reply.content.items)
           history == Append(messages, DSAssistantMessage(reply))
       IN /\ round_index' = r
          /\ model_calls' = model_calls + 1
          /\ conversation_rounds' =
               Append(conversation_rounds, RoundData(r, reply, parsed))
          /\ last_reply' = reply
          /\ last_event' = "model_replied"
          /\ round_execs' = 0
          /\ CASE parsed.type = "tool_call" ->
                    /\ messages' = history
                    /\ pending' = << DSToolCall >>
                    /\ pc' = "executing_action"
                    /\ result' = result
               [] parsed.type = "final_answer" ->
                    /\ messages' = history
                    /\ pending' = << >>
                    /\ pc' = "done"
                    /\ result' = DSFinalResult(parsed, r)
               [] OTHER ->
                    /\ messages' = Append(history, DSFormatPrompt(parsed.errors))
                    /\ pending' = << >>
                    /\ pc' = "awaiting_model"
                    /\ result' = result
  /\ UNCHANGED << variant, max_rounds, tool_calls_made, tool_used, tool_execs >>

\* client.chat.completions.create raises
DSModelFails ==
  /\ UNCHANGED << svars, uvars >>
  /\ variant = "ds"
  /\ pc = "awaiting_model"
  /\ HasBudget(round_index, max_rounds)
  /\ round_index' = round_index + 1
  /\ model_calls' = model_calls + 1
  /\ round_execs' = 0
  /\ result' = DSModelFailResult(round_index + 1)
  /\ pc' = "failed"
  /\ last_event' = "model_failed"
  /\ UNCHANGED << variant, max_rounds, messages, conversation_rounds,
                  tool_calls_made, pending, tool_used, tool_execs, last_reply >>

\* tool_registry[TOOL_NAME](tool_call) inside try / except Exception
DSExecuteAction ==
  /\ UNCHANGED << svars, uvars >>
  /\ variant = "ds"
  /\ pc = "executing_action"
  /\ \E outcome \in ToolOutcomes("dict") :
       /\ tool_calls_made' =
            Append(tool_calls_made,
                   [round |-> round_index, success |-> (outcome = "returns")])
       /\ conversation_rounds' =
            SetToolSuccess(conversation_rounds,
                           IF outcome = "returns" THEN "ok" ELSE "failed")
       /\ messages' =
            Append(messages,
                   IF outcome = "returns" THEN DSToolFeedback ELSE DSRetryFeedback)
       /\ last_event' = IF outcome = "returns" THEN "tool_returned" ELSE "tool_raised"
  /\ tool_execs' = tool_execs + 1
  /\ round_execs' = round_execs + 1
  /\ pending' = << >>
  /\ pc' = "awaiting_model"
  /\ UNCHANGED << variant, max_rounds, round_index, tool_used, result,
                  model_calls, last_reply >>

\* the loop ran out of rounds
DSExhausted ==
  /\ UNCHANGED << svars, uvars >>
  /\ variant = "ds"
  /\ pc = "awaiting_model"
  /\ ~HasBudget(round_index, max_rounds)
  /\ result' = DSExhaustedResult(max_rounds)
  /\ pc' = "failed"
  /\ last_event' = "exhausted"
  /\ UNCHANGED << variant, max_rounds, round_index, messages,
                  conversation_rounds, tool_calls_made, pending, tool_used,
                  model_calls, tool_execs, round_execs, last_reply >>

(* -------------------- glm: _chat_with_tools ---------------------------- *)
ReasoningTypes == { "reasoning", "thought", "thinking" }

\* _sanitize_assistant_content that filters nothing
SanitizeNothing(raw_content) == raw_content

\* _sanitize_assistant_content: a list loses its parts of a reasoning type,
\* anything else is returned as it is
SanitizeAssistantContent(raw_content) ==
  IF raw_content.kind = "list"
    THEN Parts(DropIn(raw_content.items, ReasoningTypes))
    ELSE raw_content

\* _stringify_content: None gives "", a string itself, a list the join of
\* the text of every part
StringifyContent(content) ==
  IF content.kind = "none" THEN EmptyText ELSE content.items

\* arguments_str = call.function.arguments or "{}"; json.loads; a
\* JSONDecodeError gives {}
ParseArguments(arguments_str) ==
  CASE arguments_str = "obj"    -> "dict"
    [] arguments_str = "nonobj" -> "nondict"
    [] OTHER                    -> "empty_dict"

\* the keys of tool_registry built by main
ToolRegistry == { TOOL_NAME }

\* the requests a reply of the model can carry: the registered tool with a
\* JSON object, with text that is not JSON, with JSON that is not an object,
\* and a tool that is not registered
GLMCallKinds ==
  { [name |-> TOOL_NAME, arguments |-> "obj"],
    [name |-> TOOL_NAME, arguments |-> "malformed"],
    [name |-> TOOL_NAME, arguments |-> "nonobj"],
    [name |-> "other_tool", arguments |-> "obj"] }

\* message.tool_calls: n requests (one, or as many as MaxToolCalls), the
\* first n - 1 for the registered tool with a JSON object, the last of any
\* kind
GLMToolCallLists ==
  { [i \in 1..n |-> IF i < n THEN [name |-> TOOL_NAME, arguments |-> "obj"] ELSE k] :
      n \in { 1, MaxToolCalls }, k \in GLMCallKinds }

GLMContents ==
  { NoneContent, Str(<< "txt" >>), Parts(<< "reasoning", "text" >>),
    Parts(<< "text", "thinking", "thought" >>) }

GLMReplies ==
  { [content |-> c, reasoning |-> r, tool_calls |-> << >>] :
      c \in GLMContents, r \in { EmptyText, << "RSN" >> } }
  \cup
  { [content |-> NoneContent, reasoning |-> EmptyText, tool_calls |-> tc] :
      tc \in GLMToolCallLists }
  \cup
  { [content |-> Parts(<< "reasoning", "text" >>), reasoning |-> EmptyText,
     tool_calls |-> << [name |-> TOOL_NAME, arguments |-> "obj"] >>] }

\* how the completion API numbers the requests of its responses.  An id is
\* written as the place (response, request) where it was given first, so
\* equal ids are equal pairs:
\*   unique            no id is ever repeated
\*   per_response      the requests of every response are numbered anew
\*   same_in_response  one id for all requests of a response, another one
\*                     in the next response
\*   same              one id for every request of every response
ApiIdSchemes == { "unique", "per_response", "same_in_response", "same" }

\* call.id as the API sets it for the i-th request of its r-th response;
\* counts[q] is the number of requests of response q < r
ApiId(scheme, r, i, counts) ==
  CASE scheme = "unique" -> << r, i >>
    [] scheme = "same_in_response" -> << r, 1 >>
    [] scheme = "same" -> << 1, 1 >>
    [] scheme = "per_response" ->
         LET earlier == { q \in 1..(r - 1) : counts[q] >= i }
         IN IF earlier = { } THEN << r, i >> ELSE << Min(earlier), i >>

\* the schemes that fit the ids of the responses recorded in the history:
\* the API is taken to keep to one scheme during a conversation
SchemesOf(history) ==
  LET IsAssistant(m) == m.role = "assistant"
      responses == SelectSeq(history, IsAssistant)
      counts == [q \in 1..Len(responses) |-> Len(responses[q].tool_calls)]
  IN { scheme \in ApiIdSchemes :
         \A r \in 1..Len(responses) : \A i \in 1..counts[r] :
           responses[r].tool_calls[i].id = ApiId(scheme, r, i, counts) }

\* the ids the API may give to the n requests of its next response
ApiIdLists(history, n) ==
  LET IsAssistant(m) == m.role = "assistant"
      responses == SelectSeq(history, IsAssistant)
      counts == [q \in 1..Len(responses) |-> Len(responses[q].tool_calls)]
      r == Len(responses) + 1
  IN { [i \in 1..n |-> ApiId(scheme, r, i, counts)] :
         scheme \in SchemesOf(history) }

\* message.tool_calls of a response: every request with the id the API
\* gave it
WithIds(calls, ids) ==
  [i \in 1..Len(calls) |->
     [id |-> ids[i], name |-> calls[i].name, arguments |-> calls[i].arguments]]

\* the response of the API: the reply with the ids of its requests
ApiResponse(reply, ids) ==
  [reply EXCEPT !.tool_calls = WithIds(reply.tool_calls, ids)]

\* assistant_message: id, name and arguments of every request are copied
\* from the response
GLMAssistantMessage(message) ==
  [role |-> "assistant", content |-> SanitizeAssistantContent(message.content),
   tool_calls |->
     [i \in 1..Len(message.tool_calls) |->
        [id |-> message.tool_calls[i].id, name |-> message.tool_calls[i].name,
         arguments |-> message.tool_calls[i].arguments]],
   tool_call_id |-> NoId]

\* GLMToolMessage that leaves out the id of the request
GLMToolMessageWithoutId(id, items) ==
  [role |-> "tool", content |-> Str(items), tool_calls |-> << >>,
   tool_call_id |-> NoId]

\* {"role": "tool", "tool_call_id": call.id, "content": tool_result}
GLMToolMessage(id, items) ==
  [role |-> "tool", content |-> Str(items), tool_calls |-> << >>,
   tool_call_id |-> id]

\* return final_reply, tool_used
GLMResult(final_reply, used) ==
  [kind |-> "tuple", final_reply |-> final_reply, tool_used |-> used]

\* GLMExhaustedReply with the sentinel of the ds driver
GLMExhaustedReplySentinel == SentinelAnswer

\* final_reply when the loop ends without a reply that has no tool call
GLMExhaustedReply == EmptyText

\* an exception that leaves the driver
Raised(error) == [kind |-> "exception", error |-> error]

\* AfterCallPc leaving the loop after the first request
AfterCallPcFirstOnly(rest) == "awaiting_model"

\* the for loop over message.tool_calls goes on while requests remain
AfterCallPc(rest) == IF rest = << >> THEN "awaiting_model" ELSE "executing_action"

\* one iteration of the loop up to the first tool call: model call,
\* assistant message, then either the final reply or the requests
GLMModelReplies ==
  /\ UNCHANGED << svars, uvars >>
  /\ variant = "glm"
  /\ pc = "awaiting_model"
  /\ HasBudget(round_index, max_rounds)
  /\ \E reply \in GLMReplies :
     \E ids \in ApiIdLists(messages, Len(reply.tool_calls)) :
       LET r == round_index + 1
           message == ApiResponse(reply, ids)
       IN /\ round_index' = r
          /\ model_calls' = model_calls + 1
          /\ messages' = Append(messages, GLMAssistantMessage(message))
          /\ last_reply' = reply
          /\ last_event' = "model_replied"
          /\ round_execs' = 0
          /\ IF reply.tool_calls = << >>
               THEN /\ result' = GLMResult(StringifyContent(reply.content), tool_used)
                    /\ pc' = "done"
                    /\ pending' = << >>
               ELSE /\ result' = result
                    /\ pc' = "executing_action"
                    /\ pending' = message.tool_calls
  /\ UNCHANGED << variant, max_rounds, conversation_rounds, tool_calls_made,
                  tool_used, tool_execs >>

\* client.chat.completions.create raises: nothing catches it
GLMModelFails ==
  /\ UNCHANGED << svars, uvars >>
  /\ variant = "glm"
  /\ pc = "awaiting_model"
  /\ HasBudget(round_index, max_rounds)
  /\ round_index' = round_index + 1
  /\ model_calls' = model_calls + 1
  /\ round_execs' = 0
  /\ result' = Raised("MODEL_CALL_FAILED")
  /\ pc' = "raised"
  /\ last_event' = "model_failed"
  /\ UNCHANGED << variant, max_rounds, messages, conversation_rounds,
                  tool_calls_made, pending, tool_used, tool_execs, last_reply >>

\* one iteration of the loop over message.tool_calls
GLMExecuteAction ==
  /\ UNCHANGED << svars, uvars >>
  /\ variant = "glm"
  /\ pc = "executing_action"
  /\ pending # << >>
  /\ LET call == Head(pending)
         arguments == ParseArguments(call.arguments)
     IN IF call.name \notin ToolRegistry
          THEN /\ messages' =
                    Append(messages, GLMToolMessage(call.id, << "UNKNOWN_TOOL_ERROR" >>))
               /\ pending' = Tail(pending)
               /\ pc' = AfterCallPc(Tail(pending))
               /\ last_event' = "unknown_tool"
               /\ UNCHANGED << tool_used, tool_execs, round_execs, result >>
          ELSE \E outcome \in ToolOutcomes(arguments) :
                 /\ tool_execs' = tool_execs + 1
                 /\ round_execs' = round_execs + 1
                 /\ pending' = Tail(pending)
                 /\ IF outcome = "returns"
                      THEN /\ tool_used' = TRUE
                           /\ messages' =
                                Append(messages,
                                       GLMToolMessage(call.id, << "TOOL_RESULT" >>))
                           /\ pc' = AfterCallPc(Tail(pending))
                           /\ last_event' = "tool_returned"
                           /\ result' = result
                      ELSE /\ result' = Raised("TOOL_RAISED")
                           /\ pc' = "raised"
                           /\ last_event' = "tool_raised"
                           /\ UNCHANGED << tool_used, messages >>
  /\ UNCHANGED << variant, max_rounds, round_index, conversation_rounds,
                  tool_calls_made, model_calls, last_reply >>

\* the else branch of the for loop, then the return
GLMExhausted ==
  /\ UNCHANGED << svars, uvars >>
  /\ variant = "glm"
  /\ pc = "awaiting_model"
  /\ ~HasBudget(round_index, max_rounds)
  /\ result' = GLMResult(GLMExhaustedReply, tool_used)
  /\ pc' = "failed"
  /\ last_event' = "exhausted"
  /\ UNCHANGED << variant, max_rounds, round_index, messages,
                  conversation_rounds, tool_calls_made, pending, tool_used,
                  model_calls, tool_execs, round_execs, last_reply >>

(* ------------------------- the drivers --------------------------------- *)
InitialMessages ==
  << Message("system", Str(<< "SYSTEM_PROMPT" >>)),
     Message("user", Str(<< "QUESTION" >>)) >>

\* the search entry point is not called on its own while a driver runs
SearchOff ==
  /\ s_entry = "off"
  /\ s_args = [fund_code |-> << >>]
  /\ s_pc = "off"
  /\ s_intent = "none"
  /\ s_params = [fund_code |-> << >>]
  /\ s_source_file = "None"
  /\ s_path = "undecided"
  /\ s_calls = { }
  /\ s_result = [pending |-> TRUE]

Init ==
  /\ SearchOff
  /\ ComponentOff
  /\ variant \in { "ds", "glm" }
  /\ max_rounds \in 0..MaxRounds
  /\ pc = "awaiting_model"
  /\ round_index = 0
  /\ messages = InitialMessages
  /\ conversation_rounds = << >>
  /\ tool_calls_made = << >>
  /\ pending = << >>
  /\ tool_used = FALSE
  /\ result = NoResult
  /\ model_calls = 0
  /\ tool_execs = 0
  /\ round_execs = 0
  /\ last_reply = NoReply
  /\ last_event = "start"

Next ==
  \/ DSModelReplies
  \/ DSModelFails
  \/ DSExecuteAction
  \/ DSExhausted
  \/ GLMModelReplies
  \/ GLMModelFails
  \/ GLMExecuteAction
  \/ GLMExhausted

Spec == Init /\ [][Next]_vars

\* a driver is sequential code whose calls are bounded by the timeouts of
\* the backends: a step that is possible is eventually taken
FairSpec == Spec /\ WF_vars(Next)

Terminated == pc \in { "done", "failed", "raised" }

(* ====================== the search entry point ========================= *)
(* A query string (search_info) and a fund code are sequences of tokens:   *)
(*   "SP"          white space                                             *)
(*   "CATALOG"     the catalog marker (the two-character word for a table  *)
(*                 of contents)                                            *)
(*   "TITLE_FW"    the title-lookup prefix ending in a full-width colon    *)
(*   "TITLE_HW"    the title-lookup prefix ending in an ASCII colon        *)
(*   "CONTENT_FW"  the content-lookup prefix ending in a full-width colon  *)
(*   "CONTENT_HW"  the content-lookup prefix ending in an ASCII colon      *)
(*   "x", "F"      any other non-blank text, a fund code                   *)
(* A string-or-None value is a content value (Str, NoneContent).  An       *)
(* optional integer is NoneInt (None or key absent), Invalid (a value the  *)
(* argument parser rejects) or a number.  An error message is the name of  *)
(* the message.                                                            *)
(***************************************************************************)
NoneInt == -1
Invalid == -2
NoneStr == "None"

QueryTokens ==
  { "SP", "CATALOG", "TITLE_FW", "TITLE_HW", "CONTENT_FW", "CONTENT_HW", "x" }

\* str.lstrip()
RECURSIVE LStrip(_)
LStrip(s) == IF s = << >> \/ s[1] # "SP" THEN s ELSE LStrip(Tail(s))

\* str.rstrip()
RECURSIVE RStrip(_)
RStrip(s) ==
  IF s = << >> \/ s[Len(s)] # "SP" THEN s ELSE RStrip(SubSeq(s, 1, Len(s) - 1))

\* str.strip()
Strip(s) == RStrip(LStrip(s))

\* str.startswith(prefix) for a prefix that is one token
StartsWith(s, prefix) == Len(s) >= 1 /\ s[1] = prefix

TitlePrefixes == << "TITLE_FW", "TITLE_HW" >>
ContentPrefixes == << "CONTENT_FW", "CONTENT_HW" >>

(* ------------------------- response shapes ----------------------------- *)
FlatKeys ==
  { "success", "source_file", "content", "start_page", "end_page",
    "start_chunk_id", "end_chunk_id", "error" }
ListKeys ==
  { "success", "source_file", "error", "retrieved_count",
    "retrieved_summary", "results" }

\* the shape of a response: the set of its keys
Shape(response) ==
  IF DOMAIN response = FlatKeys THEN "flat"
  ELSE IF DOMAIN response = ListKeys THEN "list"
  ELSE "other"

\* the dict with the nulled fields of the single-result shape
FlatError(message) ==
  [success |-> FALSE, source_file |-> NoneStr, content |-> NoneContent,
   start_page |-> NoneInt, end_page |-> NoneInt,
   start_chunk_id |-> NoneInt, end_chunk_id |-> NoneInt, error |-> message]

\* the dict with the empty list and count 0 of the list shape
ListError(message) ==
  [success |-> FALSE, source_file |-> NoneStr, error |-> message,
   retrieved_count |-> 0, retrieved_summary |-> NoneStr, results |-> << >>]

(* ------------------------------ tool_entry ----------------------------- *)
\* _guess_intent
GuessIntent(search_info) ==
  IF search_info.kind # "str" THEN "content"
  ELSE LET stripped == Strip(search_info.items)
       IN IF stripped = << >> THEN "content"
          ELSE IF stripped = << "CATALOG" >> THEN "catalog"
          ELSE IF \E i \in 1..Len(TitlePrefixes) :
                    StartsWith(stripped, TitlePrefixes[i])
               THEN "title"
          ELSE "content"

\* _build_wrapper_error
BuildWrapperError(intent, message) ==
  IF intent \in { "title", "catalog" }
  THEN FlatError(message) ELSE ListError(message)

\* arguments.get(key): None for an absent key
ArgGet(arguments, key) ==
  IF key \in DOMAIN arguments THEN arguments[key] ELSE NoneContent

\* _parse_optional_int / _parse_non_negative_int raise ValueError
Rejected(value) == value = Invalid

\* _parse_non_negative_int: None gives the default
ParseNonNegativeInt(value, default) ==
  IF value = NoneInt THEN default ELSE value

\* _parse_bool: ok = FALSE is the ValueError it raises.  The value is a
\* boolean or a string; a string is the sequence of its characters, "SP" a
\* white space character, and "ZHEN", "SHI", "JIA" and "FOU" stand for the
\* four one-character words
ParseBool(value) ==
  LET \* isinstance(value, bool)
      is_bool == ToString(value) \in { "TRUE", "FALSE" }
      upper == << "A", "B", "C", "D", "E", "F", "G", "H", "I", "J", "K", "L",
               "M", "N", "O", "P", "Q", "R", "S", "T", "U", "V", "W", "X",
               "Y", "Z" >>
      lower == << "a", "b", "c", "d", "e", "f", "g", "h", "i", "j", "k", "l",
               "m", "n", "o", "p", "q", "r", "s", "t", "u", "v", "w", "x",
               "y", "z" >>
      \* str.lower() of one character
      LowerChar(c) ==
        IF \E k \in 1..Len(upper) : upper[k] = c
        THEN lower[CHOOSE k \in 1..Len(upper) : upper[k] = c]
        ELSE c
      \* value.strip().lower()
      stripped == Strip(value)
      lowered == [k \in 1..Len(stripped) |-> LowerChar(stripped[k])]
      true_words ==
        { << "1" >>, << "t", "r", "u", "e" >>, << "y", "e", "s" >>, << "t" >>,
          << "y" >>, << "ZHEN" >>, << "SHI" >> }
      false_words ==
        { << "0" >>, << "f", "a", "l", "s", "e" >>, << "n", "o" >>, << "f" >>,
          << "n" >>, << "JIA" >>, << "FOU" >> }
  IN IF is_bool THEN [ok |-> TRUE, value |-> value]
     ELSE IF lowered \in true_words THEN [ok |-> TRUE, value |-> TRUE]
     ELSE IF lowered \in false_words THEN [ok |-> TRUE, value |-> FALSE]
     ELSE [ok |-> FALSE, value |-> FALSE]

\* arguments.get("is_expansion", False)
IsExpansionOf(arguments) ==
  IF "is_expansion" \in DOMAIN arguments THEN arguments.is_expansion ELSE FALSE

\* _normalize_arguments: ok = FALSE is the ValueError it raises
NormalizeArguments(arguments) ==
  IF "fund_code" \notin DOMAIN arguments \/ "search_info" \notin DOMAIN arguments
  THEN [ok |-> FALSE, params |-> [missing |-> TRUE]]
  ELSE IF ~ParseBool(IsExpansionOf(arguments)).ok
  THEN [ok |-> FALSE, params |-> [rejected |-> TRUE]]
  ELSE IF \E key \in { "start_page", "end_page", "start_chunk_id",
                       "end_chunk_id", "expand_before", "expand_after" } :
            Rejected(arguments[key])
  THEN [ok |-> FALSE, params |-> [rejected |-> TRUE]]
  ELSE [ok |-> TRUE,
        params |->
          [fund_code |-> Strip(arguments.fund_code),
           search_info |-> IF arguments.search_info.kind = "none"
                           THEN Str(<< >>) ELSE arguments.search_info,
           is_expansion |-> ParseBool(IsExpansionOf(arguments)).value,
           start_page |-> arguments.start_page,
           end_page |-> arguments.end_page,
           start_chunk_id |-> arguments.start_chunk_id,
           end_chunk_id |-> arguments.end_chunk_id,
           expand_before |-> ParseNonNegativeInt(arguments.expand_before, 0),
           expand_after |-> ParseNonNegativeInt(arguments.expand_after, 0)]]

(* ------------------------ ProspectusSearchTool ------------------------- *)
\* _validate_parameters: "valid" or the error
ValidateParameters(fund_code, search_info, start_page, end_page, start_chunk_id, end_chunk_id) ==
  IF fund_code = << >> \/ Strip(fund_code) = << >>
  THEN "FUND_CODE_EMPTY"
  ELSE IF search_info.kind = "none"
  THEN "SEARCH_INFO_NONE"
  ELSE IF start_page # NoneInt /\ end_page # NoneInt /\ start_page > end_page
  THEN "START_PAGE_AFTER_END_PAGE"
  ELSE IF start_chunk_id # NoneInt /\ end_chunk_id # NoneInt
          /\ start_chunk_id > end_chunk_id
  THEN "START_CHUNK_AFTER_END_CHUNK"
  ELSE "valid"

\* _parse_search_intent without the strip of the query
ParseSearchIntentNoStrip(search_info) ==
  IF search_info.kind = "none" THEN [intent |-> "content", query |-> << >>]
  ELSE LET raw == search_info.items
       IN IF raw = << >> THEN [intent |-> "content", query |-> << >>]
          ELSE IF \E i \in 1..Len(TitlePrefixes) :
                    StartsWith(raw, TitlePrefixes[i])
               THEN [intent |-> "title", query |-> Strip(Tail(raw))]
          ELSE IF \E i \in 1..Len(ContentPrefixes) :
                    StartsWith(raw, ContentPrefixes[i])
               THEN [intent |-> "content", query |-> Strip(Tail(raw))]
          ELSE [intent |-> "content", query |-> raw]

\* _parse_search_intent: the title prefixes are tried before the content
\* prefixes
ParseSearchIntent(search_info) ==
  IF search_info.kind = "none" THEN [intent |-> "content", query |-> << >>]
  ELSE LET raw == Strip(search_info.items)
       IN IF raw = << >> THEN [intent |-> "content", query |-> << >>]
          ELSE IF \E i \in 1..Len(TitlePrefixes) :
                    StartsWith(raw, TitlePrefixes[i])
               THEN [intent |-> "title", query |-> Strip(Tail(raw))]
          ELSE IF \E i \in 1..Len(ContentPrefixes) :
                    StartsWith(raw, ContentPrefixes[i])
               THEN [intent |-> "content", query |-> Strip(Tail(raw))]
          ELSE [intent |-> "content", query |-> raw]

\* _infer_intent_for_error
InferIntentForError(search_info) ==
  IF search_info.kind = "none" \/ search_info.items = << >>
     \/ search_info.items = << "CATALOG" >>
  THEN "content"
  ELSE ParseSearchIntent(search_info).intent

\* _create_error_result
CreateErrorResult(error_msg, intent) ==
  IF intent = "title" THEN FlatError(error_msg) ELSE ListError(error_msg)

\* DEFAULT_INTENT_MODE_MAP and _resolve_search_mode
ResolveSearchMode(intent) ==
  IF intent = "title" THEN "keyword" ELSE "hybrid"

\* the backends _execute_search calls for the given mode. The searcher is
\* built on first use inside the try: when its constructor raises
\* (searcher_raises) no backend is called. The keyword searcher exists
\* already, _get_all_file_chunks has used it. The vector adapter asks for
\* the embedding of the query first and queries the vector store only when
\* it got one
BackendsOfMode(search_mode, searcher_raises, embedding_raises) ==
  LET vector_calls == { "embedding" }
                        \cup IF embedding_raises THEN { } ELSE { "vector" }
  IN IF search_mode = "keyword" THEN { "fulltext" }
     ELSE IF searcher_raises THEN { }
     ELSE IF search_mode = "vector" THEN vector_calls
     ELSE { "fulltext" } \cup vector_calls

(* ------------------------- chunks of a document ------------------------ *)
\* a chunk of the index: page_num is the string split at "-", each part a
\* page number or NotANumber (a part int() rejects)
NotANumber == -1
Chunk(chunk_id, page_num, text) ==
  [chunk_id |-> chunk_id, page_num |-> page_num, text |-> text]

\* None where a chunk is expected
NoChunk == Chunk(NoneInt, << >>, "None")

\* what get_file_chunks(sort_by_chunk_id=True) can return for the file: no
\* chunk, or the chunks of a document in ascending chunk_id
FileChunkLists ==
  { << >>,
    << Chunk(0, << 1 >>, "t0"), Chunk(1, << 1, 2 >>, "t1") >>,
    << Chunk(0, << 1 >>, "t0"), Chunk(1, << NotANumber >>, "t1"),
       Chunk(2, << 2, 3 >>, "t2") >> }

Max(S) == CHOOSE x \in S : \A y \in S : x >= y

\* PageUtils.extract_page_numbers_from_string
ExtractPageNumbers(page_num) ==
  LET IsNumber(part) == part # NotANumber
  IN SelectSeq(page_num, IsNumber)

\* apply_range_limitations dropping, under a page filter, the chunks whose
\* label has no page number
ApplyRangeLimitationsFailClosed(chunks, start_page, end_page, start_chunk_id, end_chunk_id) ==
  LET IdOk(chunk) ==
        /\ ~(start_chunk_id # NoneInt /\ chunk.chunk_id < start_chunk_id)
        /\ ~(end_chunk_id # NoneInt /\ chunk.chunk_id > end_chunk_id)
      PageOk(chunk) ==
        LET chunk_pages == ExtractPageNumbers(chunk.page_num)
            pages == { chunk_pages[i] : i \in 1..Len(chunk_pages) }
        IN /\ chunk_pages # << >>
           /\ ~(start_page # NoneInt /\ Max(pages) < start_page)
           /\ ~(end_page # NoneInt /\ Min(pages) > end_page)
      chunk_filtered ==
        IF start_chunk_id # NoneInt \/ end_chunk_id # NoneInt
        THEN SelectSeq(chunks, IdOk) ELSE chunks
      page_filtered ==
        IF start_page # NoneInt \/ end_page # NoneInt
        THEN SelectSeq(chunk_filtered, PageOk) ELSE chunk_filtered
  IN IF chunks = << >> THEN chunks ELSE page_filtered

\* apply_range_limitations testing the first page number of the label only
ApplyRangeLimitationsFirstPage(chunks, start_page, end_page, start_chunk_id, end_chunk_id) ==
  LET IdOk(chunk) ==
        /\ ~(start_chunk_id # NoneInt /\ chunk.chunk_id < start_chunk_id)
        /\ ~(end_chunk_id # NoneInt /\ chunk.chunk_id > end_chunk_id)
      PageOk(chunk) ==
        LET chunk_pages == ExtractPageNumbers(chunk.page_num)
        IN \/ chunk_pages = << >>
           \/ /\ ~(start_page # NoneInt /\ chunk_pages[1] < start_page)
              /\ ~(end_page # NoneInt /\ chunk_pages[1] > end_page)
      chunk_filtered ==
        IF start_chunk_id # NoneInt \/ end_chunk_id # NoneInt
        THEN SelectSeq(chunks, IdOk) ELSE chunks
      page_filtered ==
        IF start_page # NoneInt \/ end_page # NoneInt
        THEN SelectSeq(chunk_filtered, PageOk) ELSE chunk_filtered
  IN IF chunks = << >> THEN chunks ELSE page_filtered

\* apply_range_limitations running the page pass only when no chunk_id bound
\* is given
ApplyRangeLimitationsOnePass(chunks, start_page, end_page, start_chunk_id, end_chunk_id) ==
  LET IdOk(chunk) ==
        /\ ~(start_chunk_id # NoneInt /\ chunk.chunk_id < start_chunk_id)
        /\ ~(end_chunk_id # NoneInt /\ chunk.chunk_id > end_chunk_id)
      PageOk(chunk) ==
        LET chunk_pages == ExtractPageNumbers(chunk.page_num)
            pages == { chunk_pages[i] : i \in 1..Len(chunk_pages) }
        IN \/ chunk_pages = << >>
           \/ /\ ~(start_page # NoneInt /\ Max(pages) < start_page)
              /\ ~(end_page # NoneInt /\ Min(pages) > end_page)
  IN IF start_chunk_id # NoneInt \/ end_chunk_id # NoneInt
     THEN SelectSeq(chunks, IdOk)
     ELSE IF start_page # NoneInt \/ end_page # NoneInt
     THEN SelectSeq(chunks, PageOk)
     ELSE chunks

\* ChunkUtils.apply_range_limitations
ApplyRangeLimitations(chunks, start_page, end_page, start_chunk_id, end_chunk_id) ==
  LET IdOk(chunk) ==
        /\ ~(start_chunk_id # NoneInt /\ chunk.chunk_id < start_chunk_id)
        /\ ~(end_chunk_id # NoneInt /\ chunk.chunk_id > end_chunk_id)
      PageOk(chunk) ==
        LET chunk_pages == ExtractPageNumbers(chunk.page_num)
            pages == { chunk_pages[i] : i \in 1..Len(chunk_pages) }
        IN \/ chunk_pages = << >>
           \/ /\ ~(start_page # NoneInt /\ Max(pages) < start_page)
              /\ ~(end_page # NoneInt /\ Min(pages) > end_page)
      chunk_filtered ==
        IF start_chunk_id # NoneInt \/ end_chunk_id # NoneInt
        THEN SelectSeq(chunks, IdOk) ELSE chunks
      page_filtered ==
        IF start_page # NoneInt \/ end_page # NoneInt
        THEN SelectSeq(chunk_filtered, PageOk) ELSE chunk_filtered
  IN IF chunks = << >> THEN chunks ELSE page_filtered

\* sorted(chunks, key=chunk_id): a stable insertion sort
RECURSIVE SortByChunkId(_)
SortByChunkId(chunks) ==
  IF chunks = << >> THEN << >>
  ELSE LET rest == SortByChunkId(SubSeq(chunks, 1, Len(chunks) - 1))
           last == chunks[Len(chunks)]
           NotAfter(chunk) == chunk.chunk_id <= last.chunk_id
           After(chunk) == chunk.chunk_id > last.chunk_id
       IN SelectSeq(rest, NotAfter) \o << last >> \o SelectSeq(rest, After)

\* expand_chunks without the sort of the chunks it collected
ExpandChunksUnsorted(target_chunks, all_chunks, expand_before, expand_after) ==
  IF target_chunks = << >> \/ (expand_before = 0 /\ expand_after = 0)
  THEN target_chunks
  ELSE LET target_chunk_ids ==
             { target_chunks[i].chunk_id : i \in 1..Len(target_chunks) }
           expand_start_id == Min(target_chunk_ids) - expand_before
           expand_end_id == Max(target_chunk_ids) + expand_after
           InRange(chunk) ==
             expand_start_id <= chunk.chunk_id /\ chunk.chunk_id <= expand_end_id
       IN SelectSeq(all_chunks, InRange)

\* expand_chunks collecting the interval also when both expansions are 0
ExpandChunksWithoutShortcut(target_chunks, all_chunks, expand_before, expand_after) ==
  IF target_chunks = << >>
  THEN target_chunks
  ELSE LET target_chunk_ids ==
             { target_chunks[i].chunk_id : i \in 1..Len(target_chunks) }
           expand_start_id == Min(target_chunk_ids) - expand_before
           expand_end_id == Max(target_chunk_ids) + expand_after
           InRange(chunk) ==
             expand_start_id <= chunk.chunk_id /\ chunk.chunk_id <= expand_end_id
       IN SortByChunkId(SelectSeq(all_chunks, InRange))

\* ChunkUtils.expand_chunks
ExpandChunks(target_chunks, all_chunks, expand_before, expand_after) ==
  IF target_chunks = << >> \/ (expand_before = 0 /\ expand_after = 0)
  THEN target_chunks
  ELSE LET target_chunk_ids ==
             { target_chunks[i].chunk_id : i \in 1..Len(target_chunks) }
           expand_start_id == Min(target_chunk_ids) - expand_before
           expand_end_id == Max(target_chunk_ids) + expand_after
           InRange(chunk) ==
             expand_start_id <= chunk.chunk_id /\ chunk.chunk_id <= expand_end_id
       IN SortByChunkId(SelectSeq(all_chunks, InRange))

\* ChunkUtils.merge_chunks_text: the texts in ascending chunk_id
MergeChunksText(chunks) ==
  LET sorted_chunks == SortByChunkId(chunks)
  IN Str([i \in 1..Len(sorted_chunks) |-> sorted_chunks[i].text])

\* ChunkUtils.get_chunk_id_range_from_chunks
GetChunkIdRange(chunks) ==
  IF chunks = << >> THEN << NoneInt, NoneInt >>
  ELSE LET chunk_ids == { chunks[i].chunk_id : i \in 1..Len(chunks) }
       IN << Min(chunk_ids), Max(chunk_ids) >>

\* PageUtils.get_page_range_from_chunks and PageUtils.calculate_page_range
GetPageRange(chunks) ==
  LET all_pages ==
        UNION { { ExtractPageNumbers(chunks[i].page_num)[j] :
                    j \in 1..Len(ExtractPageNumbers(chunks[i].page_num)) } :
                i \in 1..Len(chunks) }
  IN IF all_pages = { } THEN << NoneInt, NoneInt >>
     ELSE << Min(all_pages), Max(all_pages) >>

\* _build_expanded_entry, the fields the responses use; an empty list is
\* replaced by the base chunk when there is one
BuildExpandedEntry(expanded_chunks, base_chunk) ==
  LET chunks == IF expanded_chunks = << >> /\ base_chunk # NoChunk
                THEN << base_chunk >> ELSE expanded_chunks
      sorted_chunks == SortByChunkId(chunks)
  IN [text |-> MergeChunksText(sorted_chunks),
      start_page |-> GetPageRange(sorted_chunks)[1],
      end_page |-> GetPageRange(sorted_chunks)[2],
      start_chunk_id |-> GetChunkIdRange(sorted_chunks)[1],
      end_chunk_id |-> GetChunkIdRange(sorted_chunks)[2]]

\* _prepare_expanded_results expanding all candidates together into one entry
PrepareExpandedResultsTogether(candidate_results, all_chunks, expand_before, expand_after) ==
  << BuildExpandedEntry(
       IF ExpandChunks(candidate_results, all_chunks, expand_before, expand_after) = << >>
       THEN candidate_results
       ELSE ExpandChunks(candidate_results, all_chunks, expand_before, expand_after),
       candidate_results[1]) >>

\* _prepare_expanded_results: one entry per candidate, in their order
PrepareExpandedResults(candidate_results, all_chunks, expand_before, expand_after) ==
  [i \in 1..Len(candidate_results) |->
     LET candidate == candidate_results[i]
         expanded_chunks ==
           ExpandChunks(<< candidate >>, all_chunks, expand_before, expand_after)
     IN BuildExpandedEntry(IF expanded_chunks = << >> THEN << candidate >>
                           ELSE expanded_chunks,
                           candidate)]

\* _create_title_success_result
CreateTitleSuccessResult(source_file, results) ==
  IF results = << >>
  THEN [success |-> TRUE, source_file |-> source_file,
        content |-> NoneContent, start_page |-> NoneInt, end_page |-> NoneInt,
        start_chunk_id |-> NoneInt, end_chunk_id |-> NoneInt,
        error |-> NoneStr]
  ELSE [success |-> TRUE, source_file |-> source_file,
        content |-> results[1].text,
        start_page |-> results[1].start_page,
        end_page |-> results[1].end_page,
        start_chunk_id |-> results[1].start_chunk_id,
        end_chunk_id |-> results[1].end_chunk_id,
        error |-> NoneStr]

\* _create_content_success_result
CreateContentSuccessResult(source_file, results) ==
  [success |-> TRUE, source_file |-> source_file, error |-> NoneStr,
   retrieved_count |-> Len(results),
   retrieved_summary |-> IF Len(results) > 0 THEN "FOUND_N_TEXTS"
                         ELSE "FOUND_NO_TEXT",
   results |-> results]

\* _get_range_content; raises: building the entry raises, which its own
\* except answers
GetRangeContent(all_chunks, start_page, end_page, start_chunk_id, end_chunk_id, source_file, raises) ==
  LET range_chunks ==
        ApplyRangeLimitations(all_chunks, start_page, end_page,
                              start_chunk_id, end_chunk_id)
  IN IF range_chunks = << >>
     THEN CreateErrorResult("NOTHING_IN_RANGE", "content")
     ELSE IF raises
     THEN CreateErrorResult("RANGE_CONTENT_FAILED", "content")
     ELSE CreateContentSuccessResult(
            source_file,
            << BuildExpandedEntry(range_chunks, range_chunks[1]) >>)

(* --------------------------- DirectorySearcher ------------------------- *)
\* DirectorySearcher._create_error_result
DirCreateErrorResult(error_msg) == FlatError(error_msg)

\* DirectorySearcher._create_success_result
DirCreateSuccessResult(source_file, content, start_page, end_page, start_chunk_id, end_chunk_id) ==
  [success |-> TRUE, source_file |-> source_file, content |-> content,
   start_page |-> start_page, end_page |-> end_page,
   start_chunk_id |-> start_chunk_id, end_chunk_id |-> end_chunk_id,
   error |-> NoneStr]

\* chunks_before and chunks_after
ChunksBefore == 0
ChunksAfter == 7

(* -------------------- the calls of the entry point --------------------- *)
\* the query strings: every string of at most MaxQueryLen tokens, and the
\* lookups with a description and white space before the prefix or
\* between the prefix and the description
Queries ==
  UNION { [1..n -> QueryTokens] : n \in 0..MaxQueryLen }
  \cup { << "SP", prefix, "x" >> :
           prefix \in { "TITLE_FW", "TITLE_HW", "CONTENT_FW", "CONTENT_HW" } }
  \cup { << prefix, "SP", "x" >> : prefix \in { "TITLE_FW", "CONTENT_HW" } }

FundCodes == { << >>, << "SP" >>, << "F" >> }

\* start_page, end_page, start_chunk_id, end_chunk_id: a pair of page
\* bounds, a pair of chunk_id bounds, or all four; a bound is absent, the
\* smallest value or MaxBound
RangeArgs ==
  { << a, b, NoneInt, NoneInt >> : a, b \in { NoneInt, 1, MaxBound } }
  \cup { << NoneInt, NoneInt, a, b >> : a, b \in { NoneInt, 0, MaxBound } }
  \cup { << 1, MaxBound, 0, MaxBound >> }

\* expand_before, expand_after
ExpandArgs == { << 0, 0 >>, << 1, 1 >> }

\* the keyword arguments of a direct call of search_prospectus
SearchParams(fund_code, search_info, range, expand) ==
  [fund_code |-> fund_code, search_info |-> search_info,
   is_expansion |-> FALSE,
   start_page |-> range[1], end_page |-> range[2],
   start_chunk_id |-> range[3], end_chunk_id |-> range[4],
   expand_before |-> expand[1], expand_after |-> expand[2]]

DirectCalls ==
  { SearchParams(f, q, r, e) :
      f \in FundCodes,
      q \in { NoneContent } \cup { Str(items) : items \in Queries },
      r \in RangeArgs, e \in ExpandArgs }

\* JSON arguments that are not an object
NotAnObject == [not_an_object |-> TRUE]
IsObject(arguments) == "not_an_object" \notin DOMAIN arguments

\* the arguments dict without the key fund_code
WithoutFundCode(arguments) ==
  [key \in DOMAIN arguments \ { "fund_code" } |-> arguments[key]]

\* the arguments dict without the key search_info
WithoutSearchInfo(arguments) ==
  [key \in DOMAIN arguments \ { "search_info" } |-> arguments[key]]

\* the arguments dict with is_expansion given as a string
WithIsExpansion(arguments, value) ==
  [key \in DOMAIN arguments |->
     IF key = "is_expansion" THEN value ELSE arguments[key]]

\* is_expansion written as a string: words _parse_bool reads as True and as
\* False, in the case and with the white space a caller may give them, and
\* one it rejects
IsExpansionStrings ==
  { << "t", "r", "u", "e" >>, << "t", "R", "u", "E" >>,
    << "SP", "y", "e", "s", "SP" >>, << "N", "o" >>,
    << "F", "A", "L", "S", "E", "SP" >>, << "m", "a", "y", "b", "e" >> }

\* the arguments of call_prospectus_search: an object with both required
\* keys (start_page possibly not an integer) and no expansion, an object
\* that lacks one of them, or something that is not an object; the calls
\* with an expansion are those of WrapperCallsWithStrings
WrapperCalls ==
  LET full == { SearchParams(f, q, r, << 0, 0 >>) :
                  f \in FundCodes,
                  q \in { NoneContent } \cup { Str(items) : items \in Queries },
                  r \in RangeArgs \cup { << Invalid, NoneInt, NoneInt, NoneInt >> } }
      plain == { a \in full : /\ a.start_page = NoneInt /\ a.end_page = NoneInt
                              /\ a.start_chunk_id = NoneInt
                              /\ a.end_chunk_id = NoneInt
                              /\ a.expand_before = 0
                              /\ a.fund_code = << "F" >> }
  IN full \cup { WithoutFundCode(a) : a \in plain }
          \cup { WithoutSearchInfo(a) : a \in plain }
          \cup { NotAnObject }

\* the arguments of call_prospectus_search with is_expansion given as a
\* string, for a query of each intent and without a query
WrapperCallsWithStrings ==
  { WithIsExpansion(SearchParams(<< "F" >>, q, << NoneInt, NoneInt, NoneInt, NoneInt >>, e), v) :
      q \in { NoneContent, Str(<< >>), Str(<< "CATALOG" >>), Str(<< "x" >>),
              Str(<< "TITLE_FW", "x" >>), Str(<< "SP", "CONTENT_FW", "x" >>) },
      e \in ExpandArgs, v \in IsExpansionStrings }

NoParams == [fund_code |-> << >>]
NoSearchResult == [pending |-> TRUE]

(* ---------------------- call_prospectus_search ------------------------- *)
\* an exception leaves search_prospectus: call_prospectus_search turns it
\* into a response, a direct caller gets the exception
Escapes ==
  IF s_entry = "call_prospectus_search"
  THEN /\ s_pc' = "done"
       /\ s_result' = BuildWrapperError(s_intent, "TOOL_EXECUTION_ERROR")
  ELSE /\ s_pc' = "raised"
       /\ UNCHANGED s_result

\* call_prospectus_search up to the call of search_prospectus;
\* arguments.get is evaluated outside the try. _get_tool_instance builds
\* the ProspectusSearchTool on first use, inside the second try: when the
\* constructor raises, the wrapper answers with tool_execution_error and
\* search_prospectus is not called
CallProspectusSearch ==
  /\ s_entry = "call_prospectus_search"
  /\ s_pc = "called"
  /\ IF ~IsObject(s_args)
     THEN /\ s_pc' = "raised"
          /\ UNCHANGED << s_intent, s_params, s_result >>
     ELSE LET intent == GuessIntent(ArgGet(s_args, "search_info"))
              normalized == NormalizeArguments(s_args)
          IN /\ s_intent' = intent
             /\ IF normalized.ok
                THEN \E tool_instance_raises \in BOOLEAN :
                       IF tool_instance_raises
                       THEN /\ s_result' =
                                 BuildWrapperError(intent, "TOOL_EXECUTION_ERROR")
                            /\ s_pc' = "done"
                            /\ UNCHANGED s_params
                       ELSE /\ s_params' = normalized.params
                            /\ s_pc' = "entered"
                            /\ UNCHANGED s_result
                ELSE /\ s_result' = BuildWrapperError(intent, "INVALID_ARGUMENTS")
                     /\ s_pc' = "done"
                     /\ UNCHANGED s_params
  /\ UNCHANGED << s_entry, s_args, s_source_file, s_path, s_calls >>
  /\ UNCHANGED << dvars, uvars >>

(* ------------------------- search_prospectus --------------------------- *)
\* search_prospectus up to the end of the validation; the print of
\* search_info[:50] comes first and is outside the try
SearchProspectus ==
  /\ s_pc = "entered"
  /\ LET intent_for_error == InferIntentForError(s_params.search_info)
         validation_result ==
           ValidateParameters(s_params.fund_code, s_params.search_info,
                              s_params.start_page, s_params.end_page,
                              s_params.start_chunk_id, s_params.end_chunk_id)
     IN IF s_params.search_info.kind = "none"
        THEN Escapes
        ELSE IF validation_result # "valid"
        THEN /\ s_result' = CreateErrorResult(validation_result, intent_for_error)
             /\ s_pc' = "done"
        ELSE /\ s_pc' = "locate"
             /\ UNCHANGED s_result
  /\ UNCHANGED << s_entry, s_args, s_intent, s_params, s_source_file,
                  s_path, s_calls >>
  /\ UNCHANGED << dvars, uvars >>

\* file_manager.determine_prospectus_file: a file name, None (no row, or an
\* exception it caught), or an exception of its finally block
DetermineProspectusFile ==
  /\ s_pc = "locate"
  /\ s_calls' = s_calls \cup { "catalog_db" }
  /\ LET intent_for_error == InferIntentForError(s_params.search_info)
     IN \E outcome \in { "found", "none", "raises" } :
          IF outcome = "found"
          THEN /\ s_source_file' = "FILE"
               /\ s_pc' = "dispatch"
               /\ UNCHANGED s_result
          ELSE /\ s_result' =
                    CreateErrorResult(IF outcome = "none"
                                      THEN "PROSPECTUS_NOT_FOUND"
                                      ELSE "SEARCH_FAILED",
                                      intent_for_error)
               /\ s_pc' = "done"
               /\ UNCHANGED s_source_file
  /\ UNCHANGED << s_entry, s_args, s_intent, s_params, s_path >>
  /\ UNCHANGED << dvars, uvars >>

\* what the catalog pipeline can find out about the hits: no hit has the
\* two catalog characters, the classifier accepts none of the candidates, a
\* step raises, or the classifier accepts the hit at the given index
DirectoryOutcomes(hits) ==
  { [kind |-> k, index |-> 0] : k \in { "no_candidates", "not_identified", "raises" } }
  \cup { [kind |-> "identified", index |-> i] : i \in 1..Len(hits) }

\* DirectorySearcher.get_directory_content: outcome.index is the position
\* in the answer of the index of the hit the classifier accepted; the hits
\* are sorted by chunk_id before the expansion
GetDirectoryContent(hits, outcome, source_file) ==
  IF hits = << >> THEN DirCreateErrorResult("NO_CHUNKS_IN_INDEX")
  ELSE IF outcome.kind = "no_candidates"
  THEN DirCreateErrorResult("NO_CATALOG_KEYWORD")
  ELSE IF outcome.kind = "not_identified"
  THEN DirCreateErrorResult("CATALOG_NOT_IDENTIFIED")
  ELSE IF outcome.kind = "raises"
  THEN DirCreateErrorResult("CATALOG_EXCEPTION")
  ELSE LET dir_chunk_id == hits[outcome.index].chunk_id
           start_chunk_id == dir_chunk_id - ChunksBefore
           end_chunk_id == dir_chunk_id + ChunksAfter
           InRange(h) == start_chunk_id <= h.chunk_id /\ h.chunk_id <= end_chunk_id
           sorted_hits == SortByChunkId(hits)
           expanded_chunks == SelectSeq(sorted_hits, InRange)
       IN IF expanded_chunks = << >>
          THEN DirCreateErrorResult("CATALOG_EXPANSION_FAILED")
          ELSE DirCreateSuccessResult(
                 source_file,
                 Str([i \in 1..Len(expanded_chunks) |-> expanded_chunks[i].text]),
                 GetPageRange(expanded_chunks)[1],
                 GetPageRange(expanded_chunks)[2],
                 expanded_chunks[1].chunk_id,
                 expanded_chunks[Len(expanded_chunks)].chunk_id)

\* the branch of search_prospectus for the catalog marker
SearchDirectory ==
  /\ s_pc = "dispatch"
  /\ s_params.search_info.items = << "CATALOG" >>
  /\ \E hits \in FileChunkLists :
       \E outcome \in DirectoryOutcomes(hits) :
         /\ s_result' = GetDirectoryContent(hits, outcome, s_source_file)
         /\ s_calls' = s_calls \cup { "fulltext" }
                         \cup IF hits # << >> /\ outcome.kind \in { "not_identified", "identified" }
                              THEN { "completion" } ELSE { }
  /\ s_path' = "catalog"
  /\ s_pc' = "done"
  /\ UNCHANGED << s_entry, s_args, s_intent, s_params, s_source_file >>
  /\ UNCHANGED << dvars, uvars >>

\* what _execute_search can return: nothing (also when the retrieval
\* raises), one chunk of the file, or its last and first chunk in that rank
CandidateLists(all_chunks) ==
  { << >> } \cup { << all_chunks[i] >> : i \in 1..Len(all_chunks) }
  \cup IF Len(all_chunks) >= 2
       THEN { << all_chunks[Len(all_chunks)], all_chunks[1] >> } ELSE { }

\* a Python truth test of an optional integer
Truthy(value) == value # NoneInt /\ value # 0

\* the steps of _search_general_content that raise when they are reached:
\* none, the constructor of the keyword searcher in _get_all_file_chunks
\* (caught there: no chunks), the range limitation of the chunks of the
\* file (a chunk without chunk_id under chunk_id bounds), the constructor
\* of the vector or hybrid searcher in _execute_search (caught there: no
\* candidates), or the expansion of the candidates (a chunk without text)
RaisingSteps ==
  { "none", "keyword_searcher", "range_limits", "retrieval_searcher", "expansion" }

\* the answers of the backends to one general retrieval: all_chunks
\* (_get_all_file_chunks), found (_execute_search), selected (the index
\* select_best_chunk decides on among several candidates, 0 = None), raises
\* (the step that raises), embedding_raises (the embedding call of the
\* vector adapter fails)
BackendAnswers ==
  { [raises |-> r, embedding_raises |-> e, all_chunks |-> a, found |-> f,
     selected |-> k] :
      r \in RaisingSteps, e \in BOOLEAN,
      a \in FileChunkLists, f \in UNION { CandidateLists(c) : c \in FileChunkLists },
      k \in 0..2 }

\* the answers that fit together: the candidates are chunks of the file,
\* a selection is made among several candidates only, no chunk is read
\* without the keyword searcher, and no retrieval follows a range
\* limitation that raises or a searcher that cannot be built
Coherent(answer) ==
  /\ answer.found \in CandidateLists(answer.all_chunks)
  /\ answer.selected = 1 \/ (Len(answer.found) >= 2 /\ answer.selected <= Len(answer.found))
  /\ answer.raises = "keyword_searcher" => answer.all_chunks = << >>
  /\ answer.raises \in { "keyword_searcher", "range_limits", "retrieval_searcher" }
       => answer.found = << >> /\ ~answer.embedding_raises

CoherentAnswers == { answer \in BackendAnswers : Coherent(answer) }

\* _search_general_content for the given answers of the backends
GeneralContent(p, source_file, all_chunks, found, selected, raises, embedding_raises) ==
  LET parsed_intent == ParseSearchIntent(p.search_info)
      intent == parsed_intent.intent
      normalized_query == parsed_intent.query
      search_mode == ResolveSearchMode(intent)
      range_given ==
        \E value \in { p.start_page, p.end_page, p.start_chunk_id, p.end_chunk_id } :
          value # NoneInt
      file_chunks == IF raises = "keyword_searcher" THEN << >> ELSE all_chunks
      range_chunks ==
        ApplyRangeLimitations(file_chunks, p.start_page, p.end_page,
                              p.start_chunk_id, p.end_chunk_id)
      searcher_raises == raises = "retrieval_searcher" /\ search_mode # "keyword"
      search_results == IF searcher_raises THEN << >> ELSE found
      refilter == Truthy(p.start_page) \/ Truthy(p.end_page)
                  \/ Truthy(p.start_chunk_id) \/ Truthy(p.end_chunk_id)
      candidate_results ==
        IF refilter
        THEN ApplyRangeLimitations(search_results, p.start_page, p.end_page,
                                   p.start_chunk_id, p.end_chunk_id)
        ELSE search_results
      best_chunk_index ==
        IF Len(candidate_results) = 1 THEN 1
        ELSE IF selected <= Len(candidate_results) THEN selected ELSE 1
      expanded_results ==
        IF intent = "title"
        THEN PrepareExpandedResults(<< candidate_results[best_chunk_index] >>,
                                    file_chunks, p.expand_before, p.expand_after)
        ELSE PrepareExpandedResults(candidate_results, file_chunks,
                                    p.expand_before, p.expand_after)
      retrieval_calls == BackendsOfMode(search_mode, searcher_raises, embedding_raises)
      selection_calls ==
        IF intent = "title" /\ Len(candidate_results) >= 2
        THEN { "completion" } ELSE { }
      Out(response, path, calls) ==
        [result |-> response, path |-> path,
         calls |-> calls \cup IF raises = "keyword_searcher" THEN { }
                              ELSE { "fulltext" }]
  IN IF file_chunks = << >>
     THEN Out(CreateErrorResult("NO_CHUNKS_OF_FILE", intent), "undecided", { })
     ELSE IF range_given /\ raises = "range_limits"
     THEN Out(CreateErrorResult("GENERAL_SEARCH_FAILED", intent), "undecided", { })
     ELSE IF range_given /\ range_chunks = << >>
     THEN Out(CreateErrorResult("NOTHING_IN_RANGE", intent), "undecided", { })
     ELSE IF Strip(normalized_query) = << >>
     THEN Out(GetRangeContent(file_chunks, p.start_page, p.end_page,
                              p.start_chunk_id, p.end_chunk_id, source_file,
                              raises = "expansion"),
              "raw_range", { })
     ELSE IF search_results = << >>
     THEN Out(CreateErrorResult("NO_MATCH", intent), intent, retrieval_calls)
     ELSE IF candidate_results = << >>
     THEN Out(CreateErrorResult("NO_MATCH_IN_RANGE", intent), intent,
              retrieval_calls)
     ELSE IF intent = "title" /\ best_chunk_index = 0
     THEN Out(CreateErrorResult("TITLE_NOT_SELECTED", intent), intent,
              retrieval_calls \cup { "completion" })
     ELSE IF raises = "expansion"
     THEN Out(CreateErrorResult("GENERAL_SEARCH_FAILED", intent), "undecided",
              retrieval_calls \cup selection_calls)
     ELSE IF intent = "title"
     THEN Out(CreateTitleSuccessResult(source_file, expanded_results), intent,
              retrieval_calls \cup selection_calls)
     ELSE Out(CreateContentSuccessResult(source_file, expanded_results), intent,
              retrieval_calls)

\* the call of _search_general_content by search_prospectus
SearchGeneralContent ==
  /\ s_pc = "dispatch"
  /\ s_params.search_info.items # << "CATALOG" >>
  /\ \E out \in { GeneralContent(s_params, s_source_file, answer.all_chunks,
                                 answer.found, answer.selected, answer.raises,
                                 answer.embedding_raises) :
                    answer \in CoherentAnswers } :
          /\ s_result' = out.result
          /\ s_path' = out.path
          /\ s_calls' = s_calls \cup out.calls
  /\ s_pc' = "done"
  /\ UNCHANGED << s_entry, s_args, s_intent, s_params, s_source_file >>
  /\ UNCHANGED << dvars, uvars >>

(* ------------------- the entry point on its own ------------------------ *)
\* no driver runs
DriverOff ==
  /\ variant = "off"
  /\ max_rounds = 0
  /\ pc = "off"
  /\ round_index = 0
  /\ messages = << >>
  /\ conversation_rounds = << >>
  /\ tool_calls_made = << >>
  /\ pending = << >>
  /\ tool_used = FALSE
  /\ result = NoResult
  /\ model_calls = 0
  /\ tool_execs = 0
  /\ round_execs = 0
  /\ last_reply = NoReply
  /\ last_event = "start"

\* one call of call_prospectus_search or of search_prospectus
InitSearch ==
  /\ DriverOff
  /\ ComponentOff
  /\ s_entry \in { "call_prospectus_search", "search_prospectus" }
  /\ IF s_entry = "call_prospectus_search"
     THEN /\ \/ s_args \in WrapperCalls
             \/ s_args \in WrapperCallsWithStrings
          /\ s_pc = "called"
          /\ s_params = NoParams
     ELSE /\ s_args \in DirectCalls
          /\ s_pc = "entered"
          /\ s_params = s_args
  /\ s_intent = "none"
  /\ s_source_file = NoneStr
  /\ s_path = "undecided"
  /\ s_calls = { }
  /\ s_result = NoSearchResult

NextSearch ==
  \/ CallProspectusSearch
  \/ SearchProspectus
  \/ DetermineProspectusFile
  \/ SearchDirectory
  \/ SearchGeneralContent

SpecSearch == InitSearch /\ [][NextSearch]_vars

SearchReturned == s_pc = "done"
SearchRaised == s_pc = "raised"

(* ======================= properties of the drivers ===================== *)
Items(m) == { m.content.items[i] : i \in 1..Len(m.content.items) }

AssistantIndexes == { i \in 1..Len(messages) : messages[i].role = "assistant" }

\* the index in the history of the assistant message of the current round
LastAssistantIndex ==
  CHOOSE i \in AssistantIndexes : \A j \in AssistantIndexes : j <= i

MalformedTypes == { "format_error", "error" }

\* ds: every round so far got a malformed reply
AllRoundsMalformed ==
  \A i \in 1..Len(conversation_rounds) :
    conversation_rounds[i].parsed_type \in MalformedTypes

\* glm: every round so far got a reply that requests an action
AllRoundsRequestedAction ==
  /\ Cardinality(AssistantIndexes) = round_index
  /\ \A i \in AssistantIndexes : messages[i].tool_calls # << >>

\* C1: for every behaviour of the model and every max_rounds >= 0 each
\* driver makes at most max_rounds model calls, every model turn (action,
\* final answer, malformed reply or failed call) consumes exactly one round
\* of the budget, and the driver always terminates.
C1_BoundedRoundsAndTermination ==
  /\ [](/\ model_calls <= max_rounds
        /\ model_calls = round_index
        /\ (variant = "ds" /\ last_event # "model_failed"
              => Len(conversation_rounds) = model_calls))
  /\ <>Terminated

\* a run of the ds driver that used its whole budget on an action, a
\* malformed reply and whatever else, and stopped
C1_Witness ==
  /\ variant = "ds"
  /\ Terminated
  /\ max_rounds >= 2
  /\ model_calls = max_rounds
  /\ \E i, j \in 1..Len(conversation_rounds) :
       /\ conversation_rounds[i].parsed_type = "tool_call"
       /\ conversation_rounds[j].parsed_type \in MalformedTypes

\* C2: in the ds driver, when the model returns a malformed reply in every
\* round, the driver ends in FAILURE after exactly max_rounds rounds
\* (total_rounds = max_rounds, max_rounds model calls, no action executed)
\* and the result carries the sentinel answer as final_answer.
C2_AllMalformedEndsWithSentinel ==
  (variant = "ds" /\ Terminated /\ last_event # "model_failed" /\ AllRoundsMalformed)
    => /\ pc = "failed"
       /\ result.kind = "dict"
       /\ result.success = FALSE
       /\ result.total_rounds = max_rounds
       /\ result.final_answer = SentinelAnswer
       /\ Len(conversation_rounds) = max_rounds
       /\ model_calls = max_rounds
       /\ tool_execs = 0
       /\ tool_calls_made = << >>

C2_Witness ==
  /\ variant = "ds"
  /\ pc = "failed"
  /\ last_event = "exhausted"
  /\ max_rounds >= 2
  /\ Len(conversation_rounds) = max_rounds
  /\ AllRoundsMalformed

\* ds: the text after the first FINAL_ANSWER: of the latest reply
AnswerOfLastReply ==
  LET c == last_reply.content.items
      k == Min({ i \in 1..Len(c) : c[i] = "FA" })
  IN SubSeq(c, k + 1, Len(c))

\* C3 (as claimed): in both drivers, when the model returns a well-formed
\* final answer in round k (1 <= k <= max_rounds), the driver ends in
\* SUCCESS reporting exactly k rounds and that answer.
C3_FinalAnswerReportsSuccessAndRounds ==
  pc = "done"
    => /\ result.kind = "dict"
       /\ result.success = TRUE
       /\ result.total_rounds = round_index
       /\ result.final_answer # EmptyText

\* C3 (amended): when the model returns a well-formed final answer in round
\* k (1 <= k <= max_rounds), the driver ends in that round with that
\* answer, and makes no model call and executes no action after round k;
\* the ds driver returns a SUCCESS result reporting exactly k rounds, the
\* glm driver returns the pair of the answer and the tool_used flag, which
\* has neither a success flag nor a round count.
C3_FinalAnswerEndsInRoundK ==
  pc = "done"
    => /\ round_index \in 1..max_rounds
       /\ model_calls = round_index
       /\ round_execs = 0
       /\ pending = << >>
       /\ Last(messages).role = "assistant"
       /\ ~ENABLED Next
       /\ variant = "ds"
            => /\ result.kind = "dict"
               /\ result.success = TRUE
               /\ result.total_rounds = round_index
               /\ result.final_answer = AnswerOfLastReply
               /\ result.final_answer # EmptyText
               /\ Len(conversation_rounds) = round_index
               /\ Len(tool_calls_made) = tool_execs
       /\ variant = "glm"
            => /\ last_reply.tool_calls = << >>
               /\ result = GLMResult(StringifyContent(last_reply.content), tool_used)
               /\ DOMAIN result = { "kind", "final_reply", "tool_used" }
               /\ Cardinality(AssistantIndexes) = round_index
               /\ Last(messages).content = SanitizeAssistantContent(last_reply.content)

\* the glm driver got a final answer in round 2, after an action in round 1,
\* and returned it with the flag set
C3_Witness ==
  /\ variant = "glm"
  /\ pc = "done"
  /\ round_index = 2
  /\ tool_execs = 1
  /\ result = GLMResult(<< "txt" >>, TRUE)

\* C4 (as claimed): in both drivers, when the execution of a requested action
\* raises, the driver does not abort: the next message of the history
\* carries the error text and a retry prompt, the round is consumed and the
\* driver is back awaiting the model.
C4_ToolErrorIsFedBack ==
  last_event = "tool_raised"
    => /\ pc = "awaiting_model"
       /\ { "ERROR_TEXT", "RETRY_PROMPT" } \subseteq Items(Last(messages))
       /\ model_calls = round_index

\* C5 (as claimed): in both drivers a failing model call in round k ends the
\* driver at once in a FAILURE result (success false, carrying the error)
\* that reports the k - 1 completed rounds; no action runs in round k and no
\* further model call is made.
C5_ModelFailureGivesFailureResult ==
  last_event = "model_failed"
    => /\ result.kind = "dict"
       /\ result.success = FALSE
       /\ result.error = "MODEL_CALL_FAILED"
       /\ result.total_rounds = round_index - 1
       /\ round_execs = 0
       /\ ~ENABLED Next

\* C5 (amended): a failing model call in round k ends the driver at once,
\* no action runs in round k and no further model call is made; the ds
\* driver returns a FAILURE result (success false, the error, total_rounds =
\* k - 1), the glm driver lets the exception of the model call escape to its
\* caller and returns no result.
C5_ModelFailureEndsDriver ==
  last_event = "model_failed"
    => /\ Terminated
       /\ round_execs = 0
       /\ model_calls = round_index
       /\ ~ENABLED Next
       /\ variant = "ds"
            => /\ pc = "failed"
               /\ result = DSResult(FALSE, "MODEL_CALL_FAILED", EmptyText, round_index - 1)
               /\ Len(conversation_rounds) = round_index - 1
       /\ variant = "glm"
            => /\ pc = "raised"
               /\ result = Raised("MODEL_CALL_FAILED")

\* the model call of round 2 fails after a round with an action
C5_Witness ==
  /\ last_event = "model_failed"
  /\ variant = "ds"
  /\ round_index = 2
  /\ tool_execs = 1

\* C6 (as claimed): in the glm driver, when the model requests an action in
\* every round until the budget is exhausted, the driver returns the
\* sentinel partial answer, not an empty answer.
C6_ExhaustedReturnsSentinel ==
  (variant = "glm" /\ last_event = "exhausted" /\ max_rounds >= 1
     /\ AllRoundsRequestedAction)
    => /\ result.kind = "tuple"
       /\ result.final_reply = SentinelAnswer

\* C6 (amended): in the glm driver, when the model requests an action in
\* every round until the budget is exhausted, the driver returns an empty
\* final reply together with the tool_used flag; only the ds driver returns
\* the sentinel answer.
C6_ExhaustedReturnsEmptyReply ==
  (variant = "glm" /\ last_event = "exhausted" /\ max_rounds >= 1
     /\ AllRoundsRequestedAction)
    => /\ pc = "failed"
       /\ result.kind = "tuple"
       /\ result.final_reply = EmptyText
       /\ result.tool_used = (tool_execs > 0)
       /\ model_calls = max_rounds

C6_Witness ==
  /\ variant = "glm"
  /\ last_event = "exhausted"
  /\ max_rounds >= 2
  /\ AllRoundsRequestedAction
  /\ tool_execs >= 2

\* the number of observations that follow the assistant message of the
\* current round
ObservationsOfRound == Len(messages) - LastAssistantIndex

\* the number of actions the reply of the current round asks for
RequestsOfRound ==
  IF variant = "glm" THEN Len(messages[LastAssistantIndex].tool_calls)
  ELSE IF Last(conversation_rounds).parsed_type = "tool_call" THEN 1 ELSE 0

\* C7 (as claimed): in both drivers a round is one model call followed by at
\* most one action execution, and the action of round k is completed, with
\* its observation in the history, before the model call of round k + 1.
C7_AtMostOneActionPerRound ==
  /\ round_execs <= 1
  /\ model_calls = round_index
  /\ (pc = "awaiting_model" /\ round_index >= 1)
       => /\ pending = << >>
          /\ Last(messages).role \in { "user", "tool" }

\* C7 (amended): a round is one model call followed by the actions its reply
\* requests, executed one at a time in the order requested: at most one in
\* the ds driver, as many as the reply has requests in the glm driver; every
\* action of round k is completed, with its observation in the history,
\* before the model call of round k + 1.
C7_SequentialActionsPerRound ==
  /\ model_calls = round_index
  /\ variant = "ds" => round_execs <= 1
  /\ round_index >= 1 /\ last_event # "model_failed"
       => round_execs + Len(pending) <= RequestsOfRound
  /\ (pc = "awaiting_model" /\ round_index >= 1)
       => /\ pending = << >>
          /\ Last(messages).role \in { "user", "tool" }
          /\ variant = "glm" => ObservationsOfRound = RequestsOfRound
          /\ variant = "ds" => ObservationsOfRound = 1

\* the glm driver has run the two actions of one reply and awaits the model
C7_Witness ==
  /\ variant = "glm"
  /\ pc = "awaiting_model"
  /\ round_execs = 2
  /\ ObservationsOfRound = 2

\* the brace block after the first TOOL_CALL: that has one ("none" if no
\* TOOL_CALL: is followed by a brace block)
ActionBlock(c) ==
  LET at == { i \in 1..(Len(c) - 1) : c[i] = "TC" /\ c[i + 1] \in BraceBlocks }
  IN IF at = {} THEN "none" ELSE c[Min(at) + 1]

\* the replies the claim calls malformed
ClaimedMalformed(c) ==
  \/ \A i \in 1..Len(c) : c[i] \notin { "TC", "FA" }
  \/ ActionBlock(c) = "Jbad"
  \/ ActionBlock(c) \in { "Jnofund", "Jnullinfo" }

\* C8: in the ds driver a reply with neither marker, with an action block
\* whose JSON does not parse, or with an action block that lacks fund_code
\* or search_info or has one of them null, is malformed: no action is
\* executed in the round, a corrective instruction restating the two allowed
\* shapes is appended to the history and the conversation continues.
C8_MalformedReplyGetsCorrection ==
  (variant = "ds" /\ last_event = "model_replied"
     /\ ClaimedMalformed(last_reply.content.items))
    => /\ pc = "awaiting_model"
       /\ Last(conversation_rounds).parsed_type \in MalformedTypes
       /\ Last(conversation_rounds).tool_success = "unset"
       /\ round_execs = 0
       /\ pending = << >>
       /\ \A i \in 1..Len(tool_calls_made) : tool_calls_made[i].round # round_index
       /\ Last(messages).role = "user"
       /\ { "SHAPE_TOOL_CALL", "SHAPE_FINAL_ANSWER" } \subseteq Items(Last(messages))
       /\ messages[Len(messages) - 1] = Message("assistant", last_reply.content)

\* an action block with a null search_info, in the second round
C8_Witness ==
  /\ variant = "ds"
  /\ last_event = "model_replied"
  /\ last_reply.content.items = << "TC", "Jnullinfo" >>
  /\ round_index = 2
  /\ pc = "awaiting_model"

ReasoningMarks == { "RSN" } \cup ReasoningTypes

\* the visible part of a reply: its content without the reasoning parts
VisibleReply(reply) ==
  IF reply.content.kind = "list"
    THEN [kind |-> "list",
          items |-> SelectSeq(reply.content.items, LAMBDA t : t \notin ReasoningMarks)]
    ELSE reply.content

\* C9: the history sent to the model never contains reasoning text: the
\* assistant entry stored for a round is the visible reply of the model
\* only, so the reasoning of a round is in the input of no later round.
C9_NoReasoningInHistory ==
  /\ \A i \in 1..Len(messages) : Items(messages[i]) \cap ReasoningMarks = {}
  /\ last_event = "model_replied"
       => messages[LastAssistantIndex].content = VisibleReply(last_reply)

\* the glm driver stored a reply whose content list had a reasoning part,
\* ran its action and is about to send the history to the model again
C9_Witness ==
  /\ variant = "glm"
  /\ pc = "awaiting_model"
  /\ round_index >= 1
  /\ HasBudget(round_index, max_rounds)
  /\ "reasoning" \in { last_reply.content.items[i] : i \in 1..Len(last_reply.content.items) }
  /\ last_event = "tool_returned"

(* =================== properties of the search entry point ============== *)
\* the query string of the call ("" when the call has none)
CalledQuery ==
  IF IsObject(s_args) /\ "search_info" \in DOMAIN s_args
     /\ s_args.search_info.kind = "str"
  THEN s_args.search_info.items ELSE << >>

\* the call has a query string without white space around it
PlainQueryCall ==
  /\ IsObject(s_args)
  /\ "search_info" \in DOMAIN s_args
  /\ s_args.search_info.kind = "str"
  /\ Strip(s_args.search_info.items) = s_args.search_info.items

\* the intent of a query string by literal prefix: the catalog marker, a
\* title-lookup prefix, anything else (the empty string included)
QueryIntent(query) ==
  IF query = << "CATALOG" >> THEN "catalog"
  ELSE IF query # << >> /\ query[1] \in { "TITLE_FW", "TITLE_HW" } THEN "title"
  ELSE "content"

\* the response shape of an intent
ShapeOfIntent(intent) ==
  IF intent \in { "catalog", "title" } THEN "flat" ELSE "list"

\* an error response of its shape: nulled fields, or empty list and count 0
NulledError(response) ==
  IF Shape(response) = "flat"
  THEN /\ response.content = NoneContent
       /\ response.start_page = NoneInt /\ response.end_page = NoneInt
       /\ response.start_chunk_id = NoneInt /\ response.end_chunk_id = NoneInt
  ELSE /\ response.results = << >>
       /\ response.retrieved_count = 0

\* C10 (as claimed): every call of the search entry point with a query
\* string ends with a response, never with an exception, and the shape of
\* the response, successful or failed, is the one of the intent of the query
\* string: flat for catalog and title, count plus list for content; an error
\* response has the nulled fields, or the empty list and count 0, of that
\* shape.
C10_ResponseShapeFixedByIntent ==
  (PlainQueryCall /\ (SearchReturned \/ SearchRaised)) =>
    /\ SearchReturned
    /\ Shape(s_result) = ShapeOfIntent(QueryIntent(CalledQuery))
    /\ ~s_result.success => NulledError(s_result)

(* ================ C11: validation before any backend =================== *)
\* the errors _validate_parameters reports for the parameters of the call
ValidationErrors ==
  { "FUND_CODE_EMPTY", "START_PAGE_AFTER_END_PAGE", "START_CHUNK_AFTER_END_CHUNK" }

\* the call gives both bounds of a pair as integers, the first above the
\* second
InvertedPair(lo, hi) ==
  /\ lo \notin { NoneInt, Invalid } /\ hi \notin { NoneInt, Invalid } /\ lo > hi

\* the call has the keys of the parameters, and its fund_code is empty or
\* blank, or its page bounds or its chunk_id bounds are inverted
InvalidCall ==
  /\ IsObject(s_args)
  /\ { "fund_code", "search_info" } \subseteq DOMAIN s_args
  /\ \/ Strip(s_args.fund_code) = << >>
     \/ InvertedPair(s_args.start_page, s_args.end_page)
     \/ InvertedPair(s_args.start_chunk_id, s_args.end_chunk_id)

\* C11 (as claimed): a call whose fund_code is empty or blank, or whose
\* start_page is above its end_page, or whose start_chunk_id is above its
\* end_chunk_id (both bounds given), never reaches the catalog, the
\* full-text index, the vector index, the embedding or the completion
\* model, and ends with an error response, never with an exception; a
\* validation error is reported for these calls only, so an empty query
\* string alone is never one.
C11_ValidationBeforeBackends ==
  /\ InvalidCall =>
       /\ s_calls = { }
       /\ s_pc \in { "called", "entered", "done" }
       /\ s_pc = "done" => ~s_result.success
  /\ (s_pc = "done" /\ ~s_result.success /\ s_result.error \in ValidationErrors)
       => InvalidCall

(* ================== C12: the intent of a query string ================== *)
\* the query string search_prospectus was entered with
EnteredQuery == s_params.search_info.items

\* the retrieval path of a query string by literal prefix, as claimed: the
\* catalog marker, a title-lookup prefix, the empty string, anything else
PathByLiteralPrefix(query) ==
  IF query = << "CATALOG" >> THEN "catalog"
  ELSE IF query = << >> THEN "raw_range"
  ELSE IF query[1] \in { "TITLE_FW", "TITLE_HW" } THEN "title"
  ELSE "content"

\* the query without the white space around it and without its lookup
\* prefix
Description(query) ==
  LET raw == Strip(query)
  IN IF raw # << >> /\ raw[1] \in { "TITLE_FW", "TITLE_HW", "CONTENT_FW", "CONTENT_HW" }
     THEN Strip(Tail(raw)) ELSE raw

\* the retrieval path of a query string: the catalog marker exactly;
\* otherwise raw-range when nothing is left of the query without the white
\* space around it and its lookup prefix, title for a title-lookup prefix,
\* content for the rest
PathByNormalizedQuery(query) ==
  IF query = << "CATALOG" >> THEN "catalog"
  ELSE IF Description(query) = << >> THEN "raw_range"
  ELSE IF Strip(query)[1] \in { "TITLE_FW", "TITLE_HW" } THEN "title"
  ELSE "content"

\* C12 (as claimed): the retrieval path search takes is the one of the
\* intent of the query string by literal prefix: catalog for the catalog
\* marker, title for a title-lookup prefix, raw-range for the empty string,
\* content for any other text.
C12_PathByLiteralPrefix ==
  s_path # "undecided" => s_path = PathByLiteralPrefix(EnteredQuery)

\* C12 (amended): the retrieval path is a function of the query string
\* alone: catalog for the catalog marker exactly; otherwise the white space
\* around the query and its lookup prefix are dropped, and the path is
\* raw-range when nothing is left (empty or blank query, bare prefix), title
\* for a title-lookup prefix and content for the rest; on the title and
\* content paths the intent is the path and the description is what is
\* left of the query.
C12_PathByNormalizedQuery ==
  /\ s_path # "undecided" => s_path = PathByNormalizedQuery(EnteredQuery)
  /\ (s_pc = "done" /\ s_path \in { "title", "content" })
       => /\ ParseSearchIntent(s_params.search_info).intent = s_path
          /\ ParseSearchIntent(s_params.search_info).query = Description(EnteredQuery)

\* a query of white space, a title-lookup prefix and a description was
\* answered on the title path, with the description as the query
C12_Witness ==
  /\ s_pc = "done"
  /\ s_path = "title"
  /\ EnteredQuery = << "SP", "TITLE_FW", "x" >>
  /\ ParseSearchIntent(s_params.search_info).query = << "x" >>
  /\ s_result.success

(* ================= the chunk utilities on their own ==================== *)
\* page labels: empty, without a number, one page, a first and a last page
\* around MaxBound, a label with one part that is not a number
PageLabels ==
  { << >>, << NotANumber >>, << 1 >>, << 1, MaxBound + 1 >>, << NotANumber, MaxBound >> }

\* the chunks of a list handed to apply_range_limitations
RangeChunks ==
  { Chunk(chunk_id, page_num, "t") : chunk_id \in 0..MaxBound, page_num \in PageLabels }

\* the lists of at most n elements of a set
ListsOf(S, n) == UNION { [1..k -> S] : k \in 0..n }

\* the bounds apply_range_limitations is called with: those of the entry
\* point, and one more with both pairs
RangeBounds == RangeArgs \cup { << MaxBound, MaxBound, 1, MaxBound >> }

\* a call of apply_range_limitations
ApplyRangeLimitationsCall(chunks, r) ==
  [op |-> "apply_range_limitations", chunks |-> chunks,
   start_page |-> r[1], end_page |-> r[2],
   start_chunk_id |-> r[3], end_chunk_id |-> r[4]]

\* the chunks of a list handed to expand_chunks: the text tells two chunks
\* of one chunk_id apart
ExpandableChunks ==
  { Chunk(chunk_id, << 1 >>, text) : chunk_id \in 0..MaxBound + 1, text \in { "t", "u" } }

\* the targets expand_chunks is called with: none, one chunk, two chunks
ExpandTargets ==
  { << >> } \cup { << c >> : c \in ExpandableChunks }
  \cup { << Chunk(MaxBound, << 1 >>, "t"), Chunk(1, << 1 >>, "u") >> }

\* the chunks of the list of all chunks: chunk_id 1 occurs with two texts
FileChunks == { c \in ExpandableChunks : c.text = "t" \/ c.chunk_id = 1 }

\* a call of expand_chunks
ExpandChunksCall(targets, all, before, after) ==
  [op |-> "expand_chunks", target_chunks |-> targets, all_chunks |-> all,
   expand_before |-> before, expand_after |-> after]

CallApplyRangeLimitations ==
  /\ u_pc = "called"
  /\ u_call.op = "apply_range_limitations"
  /\ u_result' = ApplyRangeLimitations(u_call.chunks, u_call.start_page, u_call.end_page,
                                       u_call.start_chunk_id, u_call.end_chunk_id)
  /\ u_pc' = "returned"
  /\ UNCHANGED << u_call, u_calls, dvars, svars >>

CallExpandChunks ==
  /\ u_pc = "called"
  /\ u_call.op = "expand_chunks"
  /\ u_result' = ExpandChunks(u_call.target_chunks, u_call.all_chunks,
                              u_call.expand_before, u_call.expand_after)
  /\ u_pc' = "returned"
  /\ UNCHANGED << u_call, u_calls, dvars, svars >>

InitChunkUtils ==
  /\ DriverOff
  /\ SearchOff
  /\ \/ \E chunks \in ListsOf(RangeChunks, MaxChunks), r \in RangeBounds :
          u_call = ApplyRangeLimitationsCall(chunks, r)
     \/ \E targets \in ExpandTargets, all \in ListsOf(FileChunks, MaxChunks) :
          \E before \in 0..1, after \in { 0, MaxBound } :
            u_call = ExpandChunksCall(targets, all, before, after)
  /\ u_pc = "called"
  /\ u_calls = << >>
  /\ u_result = << >>

NextChunkUtils ==
  \/ CallApplyRangeLimitations
  \/ CallExpandChunks

SpecChunkUtils == InitChunkUtils /\ [][NextChunkUtils]_vars

(* ====================== C13: the range filter ========================== *)
\* apply_range_limitations has returned, and each pair of bounds it was
\* called with is in order
RangeFilterReturned ==
  /\ u_call.op = "apply_range_limitations"
  /\ u_pc = "returned"
  /\ ~InvertedPair(u_call.start_page, u_call.end_page)
  /\ ~InvertedPair(u_call.start_chunk_id, u_call.end_chunk_id)

\* value lies within the bounds that are given
Within(value, lo, hi) ==
  /\ lo # NoneInt => lo <= value
  /\ hi # NoneInt => value <= hi

\* the page numbers of a page label
PagesOf(page_num) ==
  { page_num[i] : i \in 1..Len(page_num) } \ { NotANumber }

\* the elements of chunks that pass Keep, in their order
Kept(chunks, Keep(_)) == SelectSeq(chunks, Keep)

\* C13 (as claimed): for bounds in order the range filter returns exactly
\* the chunks of the list, in their original order, whose chunk_id lies
\* within the chunk_id bounds given and, when a page bound is given, one of
\* whose parsed page numbers lies within the page bounds given.
C13_RangeFilterByPageMembership ==
  RangeFilterReturned =>
    LET page_filter == u_call.start_page # NoneInt \/ u_call.end_page # NoneInt
        Keep(chunk) ==
          /\ Within(chunk.chunk_id, u_call.start_chunk_id, u_call.end_chunk_id)
          /\ page_filter =>
               \E page \in PagesOf(chunk.page_num) :
                 Within(page, u_call.start_page, u_call.end_page)
    IN u_result = Kept(u_call.chunks, Keep)

\* C13 (amended): for bounds in order the range filter returns exactly the
\* chunks of the list, in their original order, whose chunk_id lies within
\* the chunk_id bounds given and whose page label either has no page number
\* or has a largest page number not below start_page and a smallest one not
\* above end_page (each when given); so the result is a sub-list of the
\* input, every returned chunk is within the chunk_id bounds, and every
\* returned chunk with page numbers spans pages that overlap the page bounds.
C13_RangeFilterByPageSpan ==
  RangeFilterReturned =>
    LET Keep(chunk) ==
          /\ Within(chunk.chunk_id, u_call.start_chunk_id, u_call.end_chunk_id)
          /\ \/ PagesOf(chunk.page_num) = { }
             \/ /\ u_call.start_page # NoneInt
                     => \E page \in PagesOf(chunk.page_num) : page >= u_call.start_page
                /\ u_call.end_page # NoneInt
                     => \E page \in PagesOf(chunk.page_num) : page <= u_call.end_page
    IN /\ u_result = Kept(u_call.chunks, Keep)
       /\ \A i \in 1..Len(u_result) :
            /\ \E j \in 1..Len(u_call.chunks) : u_call.chunks[j] = u_result[i]
            /\ Within(u_result[i].chunk_id, u_call.start_chunk_id, u_call.end_chunk_id)

\* the filter was called with both pairs of bounds on a list of two chunks,
\* kept the second, whose first and last page lie around the page bounds,
\* and dropped the first
C13_Witness ==
  /\ RangeFilterReturned
  /\ u_call.start_page = MaxBound /\ u_call.end_page = MaxBound
  /\ u_call.start_chunk_id = 1 /\ u_call.end_chunk_id = MaxBound
  /\ Len(u_call.chunks) = 2
  /\ u_call.chunks[1].page_num = << 1 >>
  /\ u_result = << u_call.chunks[2] >>
  /\ u_result[1].page_num = << 1, MaxBound + 1 >>

(* ================ C14: chunks without a page number ==================== *)
\* the page label of the chunk yields no page number
Unpaged(chunk) == ExtractPageNumbers(chunk.page_num) = << >>

\* C14: under a page filter, whatever start_page and end_page are, the
\* range filter keeps every chunk whose page label yields no page number and
\* whose chunk_id passes the chunk_id bounds: the chunks without a page
\* number in the result are exactly those of the input within the chunk_id
\* bounds, in their order.
C14_UnpagedChunksFailOpen ==
  ( /\ u_call.op = "apply_range_limitations"
    /\ u_pc = "returned"
    /\ u_call.start_page # NoneInt \/ u_call.end_page # NoneInt ) =>
    LET UnpagedWithinIds(chunk) ==
          /\ Unpaged(chunk)
          /\ Within(chunk.chunk_id, u_call.start_chunk_id, u_call.end_chunk_id)
    IN SelectSeq(u_result, Unpaged) = SelectSeq(u_call.chunks, UnpagedWithinIds)

\* under both pairs of bounds the filter dropped a chunk on a page outside
\* the page bounds and kept a chunk whose label has no number
C14_Witness ==
  /\ u_call.op = "apply_range_limitations"
  /\ u_pc = "returned"
  /\ u_call.start_page = MaxBound /\ u_call.end_page = MaxBound
  /\ u_call.start_chunk_id = 1
  /\ Len(u_call.chunks) = 2
  /\ u_call.chunks[1].page_num = << 1 >>
  /\ u_call.chunks[1].chunk_id = 1
  /\ u_call.chunks[2].page_num = << NotANumber >>
  /\ u_result = << u_call.chunks[2] >>

(* ========================= C15: expand_chunks ========================== *)
\* how many elements of the list are the chunk
Occurrences(chunks, chunk) ==
  Cardinality({ i \in 1..Len(chunks) : chunks[i] = chunk })

\* the chunk_ids of a non-empty list
ChunkIds(chunks) == { chunks[i].chunk_id : i \in 1..Len(chunks) }

\* C15: expand_chunks called with targets and expand_before or expand_after
\* non-zero returns exactly the chunks of all_chunks whose chunk_id lies in
\* [smallest target chunk_id - expand_before, largest target chunk_id +
\* expand_after], each as often as all_chunks has it, in ascending chunk_id;
\* called with expand_before = expand_after = 0 it returns the targets
\* unchanged.
C15_ExpandReturnsTheInterval ==
  (u_call.op = "expand_chunks" /\ u_pc = "returned") =>
    IF u_call.expand_before = 0 /\ u_call.expand_after = 0
    THEN u_result = u_call.target_chunks
    ELSE u_call.target_chunks # << >> =>
           LET lo == Min(ChunkIds(u_call.target_chunks)) - u_call.expand_before
               hi == Max(ChunkIds(u_call.target_chunks)) + u_call.expand_after
           IN /\ \A chunk \in ExpandableChunks :
                   Occurrences(u_result, chunk) =
                     IF lo <= chunk.chunk_id /\ chunk.chunk_id <= hi
                     THEN Occurrences(u_call.all_chunks, chunk) ELSE 0
              /\ \A i, j \in 1..Len(u_result) :
                   i < j => u_result[i].chunk_id <= u_result[j].chunk_id

\* expand_chunks was called with one target and expand_before 1 on a list
\* that begins in descending chunk_id, and returned its first two chunks in
\* ascending chunk_id
C15_Witness ==
  /\ u_call.op = "expand_chunks"
  /\ u_pc = "returned"
  /\ u_call.expand_before = 1 /\ u_call.expand_after = 0
  /\ Len(u_call.target_chunks) = 1
  /\ Len(u_call.all_chunks) = MaxChunks
  /\ Len(u_result) = 2
  /\ u_call.all_chunks[1].chunk_id > u_call.all_chunks[2].chunk_id
  /\ u_result = << u_call.all_chunks[2], u_call.all_chunks[1] >>

(* ============ the expansion of the candidates on its own =============== *)
\* the documents of the index: the same fund has two files, and a file name
\* occurs under two funds
Documents ==
  << [fund_code |-> "F", source_file |-> "FILE"],
     [fund_code |-> "F", source_file |-> "OTHER"],
     [fund_code |-> "G", source_file |-> "FILE"] >>

\* a chunk as the index stores it; its text tells the documents apart
StoredChunk(document, chunk_id) ==
  [chunk_id |-> chunk_id, page_num |-> << 1 >>,
   text |-> document.fund_code \o "/" \o document.source_file,
   fund_code |-> document.fund_code, source_file |-> document.source_file]

\* the index: every document has the chunks 0..MaxBound, and the chunks of
\* the documents are interleaved
Index ==
  [k \in 1..(Len(Documents) * (MaxBound + 1)) |->
     StoredChunk(Documents[((k - 1) % Len(Documents)) + 1], (k - 1) \div Len(Documents))]

\* get_file_chunks filtering by the file name only
GetFileChunksOfAnyFund(fund_code, source_file) ==
  LET Matches(chunk) == chunk.source_file = source_file
  IN SortByChunkId(SelectSeq(Index, Matches))

\* the filter of get_file_chunks: fund_code and source_file, the result in
\* ascending chunk_id
GetFileChunks(fund_code, source_file) ==
  LET Matches(chunk) == chunk.fund_code = fund_code /\ chunk.source_file = source_file
  IN SortByChunkId(SelectSeq(Index, Matches))

\* what _execute_search can return for the file: at most two chunks the
\* filter lets through, in any rank
SearchHits(fund_code, source_file) ==
  LET file_chunks == GetFileChunks(fund_code, source_file)
      hits == { file_chunks[i] : i \in 1..Len(file_chunks) }
  IN { << >> } \cup { << a >> : a \in hits } \cup { << a, b >> : a, b \in hits }

\* the requests: a document of the index and the two expansions
ExpansionCalls ==
  { [op |-> "expand_results", fund_code |-> Documents[d].fund_code,
     source_file |-> Documents[d].source_file,
     expand_before |-> before, expand_after |-> after] :
      d \in 1..Len(Documents), before \in 0..MaxBound, after \in 0..MaxBound }

\* _get_all_file_chunks: the chunks of the file, or [] after an exception;
\* _search_general_content returns an error when there is none
GetAllFileChunks ==
  /\ u_pc = "called"
  /\ u_call.op = "expand_results"
  /\ \E raises \in BOOLEAN :
       LET all_chunks == IF raises THEN << >>
                         ELSE GetFileChunks(u_call.fund_code, u_call.source_file)
       IN /\ u_result' = [all_chunks |-> all_chunks, candidates |-> << >>, results |-> << >>]
          /\ u_pc' = IF all_chunks = << >> THEN "returned" ELSE "chunks"
  /\ UNCHANGED << u_call, u_calls, dvars, svars >>

\* _execute_search: the candidates; _search_general_content returns an
\* error when there is none
ExecuteSearch ==
  /\ u_pc = "chunks"
  /\ \E found \in SearchHits(u_call.fund_code, u_call.source_file) :
       /\ u_result' = [u_result EXCEPT !.candidates = found]
       /\ u_pc' = IF found = << >> THEN "returned" ELSE "found"
  /\ UNCHANGED << u_call, u_calls, dvars, svars >>

\* _prepare_expanded_results on the candidates
PrepareExpanded ==
  /\ u_pc = "found"
  /\ u_result' = [u_result EXCEPT !.results =
                    PrepareExpandedResults(u_result.candidates, u_result.all_chunks,
                                           u_call.expand_before, u_call.expand_after)]
  /\ u_pc' = "returned"
  /\ UNCHANGED << u_call, u_calls, dvars, svars >>

InitExpansion ==
  /\ DriverOff
  /\ SearchOff
  /\ u_call \in ExpansionCalls
  /\ u_pc = "called"
  /\ u_calls = << >>
  /\ u_result = << >>

NextExpansion ==
  \/ GetAllFileChunks
  \/ ExecuteSearch
  \/ PrepareExpanded

SpecExpansion == InitExpansion /\ [][NextExpansion]_vars

(* =========== C16: expansion stays inside the document ================== *)
\* the text of the chunks of the requested document
RequestedText == u_call.fund_code \o "/" \o u_call.source_file

\* C16: every chunk in an expanded result belongs to the document
\* (fund_code and source_file) of the candidate it was expanded from,
\* whatever expand_before and expand_after are: the texts merged into the
\* entry of a candidate are texts of chunks of the requested document only,
\* the candidate's own among them, and their chunk_ids lie between the
\* candidate's chunk_id - expand_before and + expand_after.
C16_ExpansionWithinDocument ==
  (u_call.op = "expand_results" /\ u_pc = "returned") =>
    /\ Len(u_result.results) = Len(u_result.candidates)
    /\ \A i \in 1..Len(u_result.results) :
         LET entry == u_result.results[i]
             candidate == u_result.candidates[i]
         IN /\ candidate.fund_code = u_call.fund_code
            /\ candidate.source_file = u_call.source_file
            /\ entry.text.items # << >>
            /\ \A k \in 1..Len(entry.text.items) : entry.text.items[k] = RequestedText
            /\ entry.start_chunk_id >= candidate.chunk_id - u_call.expand_before
            /\ entry.end_chunk_id <= candidate.chunk_id + u_call.expand_after
            /\ entry.start_chunk_id <= candidate.chunk_id
            /\ candidate.chunk_id <= entry.end_chunk_id

\* a candidate in the middle of a file whose name another fund uses too was
\* expanded by one chunk on each side
C16_Witness ==
  /\ u_call.op = "expand_results"
  /\ u_pc = "returned"
  /\ u_call.source_file = "FILE"
  /\ u_call.expand_before = 1 /\ u_call.expand_after = 1
  /\ Len(u_result.results) = 1
  /\ u_result.candidates[1].chunk_id = 1
  /\ Len(u_result.results[1].text.items) = 3

(* ================= the retrieval adapters on their own ================= *)
\* the global_ids of the chunks the backends answer with
GlobalIds == { "a", "b", "c" }

\* the 1.0 of score = 1.0 / (1.0 + distance), counted in quarters
ScoreUnit == 4

\* the L2 distances of the hits of the vector index
Distances == { 0, 3 }

\* the _score of the hits of the full-text index, in quarters
KeywordScores == { 2, 5 }

\* what the vector index answers: an exception, or at most n hits
VectorIndexAnswers(n) ==
  { [raises |-> TRUE, hits |-> << >>] }
  \cup { [raises |-> FALSE, hits |-> hits] :
           hits \in ListsOf([global_id : GlobalIds, distance : Distances], n) }

\* what the full-text index answers: an exception, or at most n hits
FullTextAnswers(n) ==
  { [raises |-> TRUE, hits |-> << >>] }
  \cup { [raises |-> FALSE, hits |-> hits] :
           hits \in ListsOf([global_id : GlobalIds, score : KeywordScores], n) }

\* BaseSearcher._format_search_result, the fields the merge reads
FormatSearchResult(global_id, score, method) ==
  [global_id |-> global_id, score |-> score, from_methods |-> << method >>]

\* KeywordSearcher.search: the hits of the full-text index, [] after an
\* exception
KeywordSearch(answer) ==
  [calls |-> << "fulltext" >>,
   raised |-> FALSE,
   results |->
     IF answer.raises THEN << >>
     ELSE [i \in 1..Len(answer.hits) |->
             FormatSearchResult(answer.hits[i].global_id, answer.hits[i].score, "keyword")]]

\* VectorSearcher.search without its try: an exception of the embedding
\* call or of the vector index leaves the adapter
VectorSearchUncaught(embedding_raises, answer) ==
  IF embedding_raises
  THEN [calls |-> << "embedding" >>, raised |-> TRUE, results |-> << >>]
  ELSE [calls |-> << "embedding", "vector" >>,
        raised |-> answer.raises,
        results |->
          [i \in 1..Len(answer.hits) |->
             FormatSearchResult(answer.hits[i].global_id,
                                ScoreUnit \div (1 + answer.hits[i].distance),
                                "vector")]]

\* VectorSearcher.search: [] when _generate_embedding has no vector, and []
\* after an exception of the vector index; the score of a hit is
\* 1 / (1 + distance)
VectorSearch(embedding_raises, answer) ==
  IF embedding_raises
  THEN [calls |-> << "embedding" >>, raised |-> FALSE, results |-> << >>]
  ELSE [calls |-> << "embedding", "vector" >>,
        raised |-> FALSE,
        results |->
          IF answer.raises THEN << >>
          ELSE [i \in 1..Len(answer.hits) |->
                  FormatSearchResult(answer.hits[i].global_id,
                                     ScoreUnit \div (1 + answer.hits[i].distance),
                                     "vector")]]

\* the global_ids of a result list
IdsOf(results) == { results[i].global_id : i \in 1..Len(results) }

\* the first loop of _merge_and_deduplicate
RECURSIVE AddVectorResults(_, _)
AddVectorResults(all_results, vector_results) ==
  IF vector_results = << >> THEN all_results
  ELSE LET entry == Head(vector_results)
       IN AddVectorResults(
            IF entry.global_id \notin IdsOf(all_results)
            THEN Append(all_results, [entry EXCEPT !.from_methods = << "vector" >>])
            ELSE all_results,
            Tail(vector_results))

\* the second loop of _merge_and_deduplicate
RECURSIVE AddKeywordResults(_, _)
AddKeywordResults(all_results, keyword_results) ==
  IF keyword_results = << >> THEN all_results
  ELSE LET entry == Head(keyword_results)
           existing == Min({ i \in 1..Len(all_results) :
                               all_results[i].global_id = entry.global_id })
           methods == all_results[existing].from_methods
       IN AddKeywordResults(
            IF entry.global_id \notin IdsOf(all_results)
            THEN Append(all_results, [entry EXCEPT !.from_methods = << "keyword" >>])
            ELSE IF "keyword" \notin { methods[k] : k \in 1..Len(methods) }
            THEN [all_results EXCEPT ![existing].from_methods = Append(methods, "keyword")]
            ELSE all_results,
            Tail(keyword_results))

\* the sort key of _merge_and_deduplicate: vector results first
Bucket(entry) ==
  IF "vector" \in { entry.from_methods[k] : k \in 1..Len(entry.from_methods) }
  THEN 0 ELSE 1

\* list.sort by (bucket, -score): a stable insertion sort
RECURSIVE SortByBucketAndScore(_)
SortByBucketAndScore(results) ==
  IF results = << >> THEN << >>
  ELSE LET rest == SortByBucketAndScore(SubSeq(results, 1, Len(results) - 1))
           last == results[Len(results)]
           After(entry) ==
             \/ Bucket(entry) > Bucket(last)
             \/ Bucket(entry) = Bucket(last) /\ entry.score < last.score
           NotAfter(entry) == ~After(entry)
       IN SelectSeq(rest, NotAfter) \o << last >> \o SelectSeq(rest, After)

\* _merge_and_deduplicate without the sort
MergeUnsorted(vector_results, keyword_results) ==
  AddKeywordResults(AddVectorResults(<< >>, vector_results), keyword_results)

\* _merge_and_deduplicate without the test of seen_ids
MergeWithoutDeduplicate(vector_results, keyword_results) ==
  SortByBucketAndScore(vector_results \o keyword_results)

\* HybridSearcher._merge_and_deduplicate
MergeAndDeduplicate(vector_results, keyword_results) ==
  SortByBucketAndScore(
    AddKeywordResults(AddVectorResults(<< >>, vector_results), keyword_results))

\* HybridSearcher.search: the vector adapter, the keyword adapter, the merge
HybridSearch(embedding_raises, vector_answer, keyword_answer) ==
  LET vector == VectorSearch(embedding_raises, vector_answer)
      keyword == KeywordSearch(keyword_answer)
  IN [calls |-> vector.calls \o keyword.calls,
      raised |-> vector.raised \/ keyword.raised,
      results |-> MergeAndDeduplicate(vector.results, keyword.results)]

\* a call of an adapter, with what its backends will answer (at most n
\* hits)
AdapterCalls(n) ==
  { [op |-> "keyword", embedding_raises |-> FALSE,
     vector_answer |-> [raises |-> FALSE, hits |-> << >>], keyword_answer |-> k] :
      k \in FullTextAnswers(n) }
  \cup { [op |-> "vector", embedding_raises |-> e, vector_answer |-> v,
          keyword_answer |-> [raises |-> FALSE, hits |-> << >>]] :
           e \in BOOLEAN, v \in VectorIndexAnswers(n) }
  \cup { [op |-> "hybrid", embedding_raises |-> e, vector_answer |-> v,
          keyword_answer |-> k] :
           e \in BOOLEAN, v \in VectorIndexAnswers(n), k \in FullTextAnswers(n) }

\* the adapter hands out to its caller
AdapterReturns(out) ==
  /\ u_calls' = out.calls
  /\ u_result' = out.results
  /\ u_pc' = IF out.raised THEN "raised" ELSE "returned"
  /\ UNCHANGED << u_call, dvars, svars >>

CallKeywordSearch ==
  /\ u_pc = "called"
  /\ u_call.op = "keyword"
  /\ AdapterReturns(KeywordSearch(u_call.keyword_answer))

CallVectorSearch ==
  /\ u_pc = "called"
  /\ u_call.op = "vector"
  /\ AdapterReturns(VectorSearch(u_call.embedding_raises, u_call.vector_answer))

CallHybridSearch ==
  /\ u_pc = "called"
  /\ u_call.op = "hybrid"
  /\ AdapterReturns(HybridSearch(u_call.embedding_raises, u_call.vector_answer,
                                 u_call.keyword_answer))

InitAdapters ==
  /\ DriverOff
  /\ SearchOff
  /\ u_call \in AdapterCalls(MaxResults)
  /\ u_pc = "called"
  /\ u_calls = << >>
  /\ u_result = << >>

NextAdapters ==
  \/ CallKeywordSearch
  \/ CallVectorSearch
  \/ CallHybridSearch

SpecAdapters == InitAdapters /\ [][NextAdapters]_vars

(* ==================== C17: the merge has no duplicate ================== *)
\* the hybrid adapter has returned
HybridReturned == u_call.op = "hybrid" /\ u_pc = "returned"

\* the lists the two adapters handed to the merge
VectorResults == VectorSearch(u_call.embedding_raises, u_call.vector_answer).results
KeywordResults == KeywordSearch(u_call.keyword_answer).results

\* the provenance tags of a result
TagsOf(entry) == { entry.from_methods[k] : k \in 1..Len(entry.from_methods) }

\* C17: whatever lists the vector adapter and the keyword adapter return,
\* the merged list has no two entries with the same global_id, and an entry
\* carries the tag "vector" exactly when its global_id is in the vector
\* list and the tag "keyword" exactly when it is in the keyword list, each
\* tag once.
C17_MergeHasNoDuplicateAndBothTags ==
  HybridReturned =>
    /\ \A i, j \in 1..Len(u_result) :
         i # j => u_result[i].global_id # u_result[j].global_id
    /\ \A i \in 1..Len(u_result) :
         /\ "vector" \in TagsOf(u_result[i])
              <=> u_result[i].global_id \in IdsOf(VectorResults)
         /\ "keyword" \in TagsOf(u_result[i])
              <=> u_result[i].global_id \in IdsOf(KeywordResults)
         /\ TagsOf(u_result[i]) \subseteq { "vector", "keyword" }
         /\ Len(u_result[i].from_methods) = Cardinality(TagsOf(u_result[i]))

\* both adapters found the same chunk, the keyword adapter found it twice
\* and found another one as well: the merged list has two entries, the first
\* with both tags
C17_Witness ==
  /\ HybridReturned
  /\ Len(VectorResults) = 1
  /\ Len(KeywordResults) = MaxResults
  /\ KeywordResults[1].global_id = VectorResults[1].global_id
  /\ Len(u_result) = 2
  /\ u_result[1].from_methods = << "vector", "keyword" >>
  /\ u_result[2].from_methods = << "keyword" >>

(* ====================== C18: the order of the merge ==================== *)
\* C18: in the merged list every entry with the tag "vector" precedes every
\* entry without it, whatever their scores, and within each of the two
\* groups the scores do not increase.
C18_VectorFirstThenByScore ==
  HybridReturned =>
    \A i, j \in 1..Len(u_result) :
      i < j =>
        /\ Bucket(u_result[i]) <= Bucket(u_result[j])
        /\ Bucket(u_result[i]) = Bucket(u_result[j])
             => u_result[i].score >= u_result[j].score

\* the merged list begins with two vector results, the better one first,
\* and goes on with a keyword-only entry whose score is above both
C18_Witness ==
  /\ HybridReturned
  /\ Len(u_result) >= 3
  /\ "vector" \in TagsOf(u_result[1]) /\ "vector" \in TagsOf(u_result[2])
  /\ u_result[1].score > u_result[2].score
  /\ TagsOf(u_result[3]) = { "keyword" }
  /\ u_result[3].score > u_result[1].score
  /\ VectorResults[1].score < VectorResults[2].score

(* ============== C19: backend failures stay in the adapter ============== *)
\* the embedding call, the vector index or the full-text index failed in
\* this call
EmbeddingFailed == u_call.op \in { "vector", "hybrid" } /\ u_call.embedding_raises
VectorIndexFailed ==
  u_call.op \in { "vector", "hybrid" } /\ ~u_call.embedding_raises /\ u_call.vector_answer.raises
FullTextFailed == u_call.op \in { "keyword", "hybrid" } /\ u_call.keyword_answer.raises

\* the backends the adapter called
CalledBackends == { u_calls[i] : i \in 1..Len(u_calls) }

\* C19: a failure of the full-text query, of the vector query or of the
\* embedding call never leaves the adapter: the search of the keyword, the
\* vector and the hybrid adapter always returns; the keyword adapter and the
\* vector adapter return the empty list when their backend failed, the
\* hybrid adapter then merges the empty list of that adapter with the list
\* of the other; and after a failing embedding call the vector index is not
\* queried.
C19_BackendFailureGivesEmptyList ==
  (u_call.op \in { "keyword", "vector", "hybrid" } /\ u_pc # "called") =>
    /\ u_pc = "returned"
    /\ EmbeddingFailed => "vector" \notin CalledBackends
    /\ (u_call.op = "keyword" /\ FullTextFailed) => u_result = << >>
    /\ (u_call.op = "vector" /\ (EmbeddingFailed \/ VectorIndexFailed)) => u_result = << >>
    /\ u_call.op = "hybrid" =>
         /\ (EmbeddingFailed \/ VectorIndexFailed)
              => \A i \in 1..Len(u_result) : TagsOf(u_result[i]) = { "keyword" }
         /\ FullTextFailed
              => \A i \in 1..Len(u_result) : TagsOf(u_result[i]) = { "vector" }
         /\ ((EmbeddingFailed \/ VectorIndexFailed) /\ FullTextFailed)
              => u_result = << >>
         /\ IdsOf(u_result) = IdsOf(VectorResults) \cup IdsOf(KeywordResults)

\* the embedding call of the hybrid adapter failed: the vector index was
\* not queried, the full-text index was, and its hits were returned
C19_Witness ==
  /\ HybridReturned
  /\ u_call.embedding_raises
  /\ u_calls = << "embedding", "fulltext" >>
  /\ Len(u_result) = MaxResults

(* =================== the document locator on its own =================== *)
\* file names as the markers the LIKE patterns look for, around other text
FileNames ==
  { << "x" >>, << "EXPANSION", "x" >>, << "x", "ALERT" >>, << "x", "EXPANSION", "ALERT" >> }

\* the rows of processed_files: elasticsearch_database_done is 'true' or
\* not, doc_type_2 is the prospectus type or another one
CatalogRows ==
  [fund_code : { "F", "G" }, done : BOOLEAN, doc_type_2 : { "PROSPECTUS", "OTHER" },
   file_name : FileNames, date : 1..2]

\* the tables of at most n rows
RECURSIVE CatalogsUpTo(_)
CatalogsUpTo(n) ==
  IF n = 0 THEN { { } }
  ELSE LET smaller == CatalogsUpTo(n - 1)
       IN smaller \cup { rows \cup { row } : rows \in smaller, row \in CatalogRows }

\* file_name LIKE '%marker%'
Like(file_name, marker) == marker \in { file_name[i] : i \in 1..Len(file_name) }

\* the WHERE clause without the test of elasticsearch_database_done
WhereIgnoringDone(rows, fund_code, is_expansion) ==
  { row \in rows :
      /\ row.fund_code = fund_code
      /\ row.doc_type_2 = "PROSPECTUS"
      /\ Like(row.file_name, "EXPANSION") = is_expansion
      /\ ~Like(row.file_name, "ALERT") }

\* the WHERE clause of the two queries of determine_prospectus_file
Where(rows, fund_code, is_expansion) ==
  { row \in rows :
      /\ row.fund_code = fund_code
      /\ row.done
      /\ row.doc_type_2 = "PROSPECTUS"
      /\ Like(row.file_name, "EXPANSION") = is_expansion
      /\ ~Like(row.file_name, "ALERT") }

\* ORDER BY date ASC LIMIT 1: the rows the query can answer with (one of
\* the rows of the smallest date)
FirstByDate(rows) == { row \in rows : \A other \in rows : row.date <= other.date }

\* what determine_prospectus_file can return: the file_name of the row the
\* query answers with, None when there is none, None after an exception
DeterminedFiles(rows, fund_code, is_expansion, db_raises) ==
  LET results == FirstByDate(Where(rows, fund_code, is_expansion))
  IN IF db_raises \/ results = { } THEN { NoneContent }
     ELSE { Str(row.file_name) : row \in results }

\* the requests: a catalog table of at most n rows, the fund, the edition
\* and the query
LocatorCalls(n) ==
  { [op |-> "determine_prospectus_file", rows |-> rows, fund_code |-> "F",
     is_expansion |-> e, search_info |-> Str(q)] :
      rows \in CatalogsUpTo(n), e \in BOOLEAN, q \in { << "x" >>, << "TITLE_FW", "x" >> } }

\* file_manager.determine_prospectus_file called by search_prospectus: it
\* returns, or the close of its finally block raises
CallDetermineProspectusFile ==
  /\ u_pc = "called"
  /\ u_call.op = "determine_prospectus_file"
  /\ u_calls' = Append(u_calls, "catalog_db")
  /\ \E db_raises, close_raises \in BOOLEAN :
       \E source_file \in DeterminedFiles(u_call.rows, u_call.fund_code,
                                          u_call.is_expansion, db_raises) :
         IF close_raises
         THEN /\ u_pc' = "locator_raised"
              /\ u_result' = [db_raises |-> db_raises, close_raises |-> TRUE,
                             source_file |-> NoneContent,
                             response |-> NoSearchResult]
         ELSE /\ u_pc' = "locator_returned"
              /\ u_result' = [db_raises |-> db_raises, close_raises |-> FALSE,
                             source_file |-> source_file,
                             response |-> NoSearchResult]
  /\ UNCHANGED << u_call, dvars, svars >>

\* search_prospectus after the locator: an error result when there is no
\* file or the locator raised, else it goes on with the file
SearchAfterLocator ==
  /\ u_pc \in { "locator_returned", "locator_raised" }
  /\ LET intent_for_error == InferIntentForError(u_call.search_info)
     IN IF u_pc = "locator_raised"
        THEN /\ u_result' = [u_result EXCEPT !.response =
                               CreateErrorResult("SEARCH_FAILED", intent_for_error)]
             /\ u_pc' = "returned"
        ELSE IF u_result.source_file = NoneContent \/ u_result.source_file.items = << >>
        THEN /\ u_result' = [u_result EXCEPT !.response =
                               CreateErrorResult("PROSPECTUS_NOT_FOUND", intent_for_error)]
             /\ u_pc' = "returned"
        ELSE /\ u_pc' = "located"
             /\ UNCHANGED u_result
  /\ UNCHANGED << u_call, u_calls, dvars, svars >>

InitLocator ==
  /\ DriverOff
  /\ SearchOff
  /\ u_call \in LocatorCalls(MaxRows)
  /\ u_pc = "called"
  /\ u_calls = << >>
  /\ u_result = << >>

NextLocator ==
  \/ CallDetermineProspectusFile
  \/ SearchAfterLocator

SpecLocator == InitLocator /\ [][NextLocator]_vars

(* ====================== C20: the document locator ====================== *)
\* determine_prospectus_file was called: it returned or raised, and
\* search_prospectus may have gone on
LocatorRan ==
  /\ u_call.op = "determine_prospectus_file"
  /\ u_pc \in { "locator_returned", "locator_raised", "located", "returned" }

\* the rows of the fund that are fully indexed and of the prospectus type
IndexedProspectusRows ==
  { row \in u_call.rows :
      row.fund_code = u_call.fund_code /\ row.done /\ row.doc_type_2 = "PROSPECTUS" }

\* the edition filter as claimed: expanded = the name contains the
\* expansion marker; initial = it contains neither marker
ClaimedEditionRows ==
  { row \in IndexedProspectusRows :
      IF u_call.is_expansion THEN Like(row.file_name, "EXPANSION")
      ELSE ~Like(row.file_name, "EXPANSION") /\ ~Like(row.file_name, "ALERT") }

\* the edition filter of the queries: the name never contains the alert
\* marker, and contains the expansion marker exactly for the expanded
\* edition
EditionRows ==
  { row \in IndexedProspectusRows :
      /\ ~Like(row.file_name, "ALERT")
      /\ Like(row.file_name, "EXPANSION") <=> u_call.is_expansion }

\* search_prospectus did not go on to the retrieval: once it has returned,
\* its response is the given error and only the catalog was called
SearchEndsWith(error) ==
  /\ u_pc # "located"
  /\ u_pc = "returned" =>
       /\ ~u_result.response.success
       /\ u_result.response.error = error
       /\ u_calls = << "catalog_db" >>

\* the locator answered with the name of an earliest-dated row of the set
\* and search_prospectus went on with it, or the set is empty, the locator
\* answered None and search returned the not-found error
LocatesEarliestOf(matching) ==
  IF matching = { }
  THEN /\ u_pc # "locator_raised"
       /\ u_result.source_file = NoneContent
       /\ SearchEndsWith("PROSPECTUS_NOT_FOUND")
  ELSE /\ u_pc \in { "locator_returned", "located" }
       /\ \E row \in matching :
            /\ u_result.source_file = Str(row.file_name)
            /\ \A other \in matching : row.date <= other.date

\* C20 (as claimed): the locator returns the earliest-dated row among the
\* rows of the fund that are fully indexed, of the prospectus type and match
\* the edition filter - expanded: the name contains the expansion marker;
\* initial: it contains neither the expansion nor the alert marker; without
\* such a row it returns None and search returns an error result without
\* querying the index, the vector store or the model.
C20_LocatorByExpansionMarkerOnly ==
  LocatorRan => LocatesEarliestOf(ClaimedEditionRows)

\* C20 (amended): as above, with the edition filter of the queries: for
\* both editions the name must not contain the alert marker; expanded: it
\* contains the expansion marker; initial: it does not. When the catalog
\* query fails the locator returns None as if no row matched; when the
\* close of the catalog connection fails the locator raises and search
\* returns its general error, again having called the catalog only.
C20_LocatorExcludesAlertNames ==
  LocatorRan =>
    IF u_result.close_raises
    THEN /\ u_pc \in { "locator_raised", "returned" }
         /\ SearchEndsWith("SEARCH_FAILED")
    ELSE IF u_result.db_raises
    THEN LocatesEarliestOf({ })
    ELSE LocatesEarliestOf(EditionRows)

\* the fund has an expanded prospectus with the alert marker in its name,
\* dated before one without it: the locator answered the request for the
\* expanded edition with the later one
C20_Witness ==
  /\ LocatorRan
  /\ ~u_result.db_raises /\ ~u_result.close_raises
  /\ u_pc = "located"
  /\ u_call.is_expansion
  /\ Cardinality(EditionRows) = 1
  /\ Cardinality(ClaimedEditionRows) = 2
  /\ \E row \in EditionRows :
       /\ u_result.source_file = Str(row.file_name)
       /\ \A alert \in ClaimedEditionRows \ EditionRows : alert.date < row.date

(* ============== the completion model behind the retrieval ============== *)
(***************************************************************************)
(* A reply of the completion model to the selector or to the catalog       *)
(* classifier is a sequence of tokens:                                     *)
(*   "SP"          whitespace                                              *)
(*   "FENCE_JSON"  the markdown fence with the language tag json           *)
(*   "FENCE"       the bare markdown fence                                 *)
(*   "x"           any other text without a brace                          *)
(*   "O_TOC_YES", "O_TOC_NO"  the object with the key of the classifier    *)
(*                 and the value yes or no                                 *)
(*   "O_TOC_YES_CAP" the same object with the English word Yes, written    *)
(*                 with capital letters, as its value                      *)
(*   "O_TOC_NESTED" the same object as O_TOC_YES with a second key whose   *)
(*                 value is an object                                      *)
(*   "O_PICK_k"    the object with the key of the selector and the value   *)
(*                 "option k" (k = 0, 1, 2, 9)                             *)
(*   "O_PICK_NONE" the same key with the no-match sentence as its value    *)
(*   "O_PICK_INT"  the same key with the number 1 as its value             *)
(*   "O_PICK_NESTED" the same object as O_PICK_2 with a second key whose   *)
(*                 value is an object                                      *)
(*   "O_OTHER"     an object with neither key                              *)
(*   "O_EMPTY"     the object without keys                                 *)
(*   "O_BROKEN"    a brace block that json.loads rejects                   *)
(*   "LIST"        a non-empty JSON array                                  *)
(*   "YES_ZH", "NO_ZH"  the words yes and no of the prompt                 *)
(*   "YES", "YES_CAP"  the English word yes in lower case, and written     *)
(*                 with capital letters (Yes, YES)                         *)
(*   "TRUE", "ONE" the JSON literals true and 1                            *)
(*   "TRUE_CAP"    the word true written with capital letters (True,       *)
(*                 TRUE), which is no JSON literal                         *)
(* A text is the concatenation of its tokens.                              *)
(***************************************************************************)
\* the tokens that are one brace block {...}
ObjectTokens ==
  { "O_TOC_YES", "O_TOC_NO", "O_TOC_YES_CAP", "O_TOC_NESTED", "O_PICK_0", "O_PICK_1", "O_PICK_2",
    "O_PICK_9", "O_PICK_NONE", "O_PICK_INT", "O_PICK_NESTED", "O_OTHER", "O_EMPTY",
    "O_BROKEN" }

\* a JSON value: kind is "dict", "list", "bool", "int" or "invalid" (json.loads
\* raises); filled says that a dict or list has an entry; is_toc and best are
\* the values of the two keys ("absent": no key)
Json(kind, filled, is_toc, best) ==
  [kind |-> kind, filled |-> filled, is_toc |-> is_toc, best |-> best]

EmptyDict == Json("dict", FALSE, "absent", "absent")

InvalidJson == Json("invalid", FALSE, "absent", "absent")

\* json.loads of a text that is one token
JsonOfToken(token) ==
  CASE token \in { "O_TOC_YES", "O_TOC_NESTED" } -> Json("dict", TRUE, "YES_ZH", "absent")
    [] token = "O_TOC_NO"      -> Json("dict", TRUE, "NO_ZH", "absent")
    [] token = "O_TOC_YES_CAP" -> Json("dict", TRUE, "YES_CAP", "absent")
    [] token = "O_PICK_0"      -> Json("dict", TRUE, "absent", "OPTION_0")
    [] token = "O_PICK_1"      -> Json("dict", TRUE, "absent", "OPTION_1")
    [] token \in { "O_PICK_2", "O_PICK_NESTED" } -> Json("dict", TRUE, "absent", "OPTION_2")
    [] token = "O_PICK_9"      -> Json("dict", TRUE, "absent", "OPTION_9")
    [] token = "O_PICK_NONE"   -> Json("dict", TRUE, "absent", "NO_MATCH")
    [] token = "O_PICK_INT"    -> Json("dict", TRUE, "absent", "INT_1")
    [] token = "O_OTHER"       -> Json("dict", TRUE, "absent", "absent")
    [] token = "O_EMPTY"       -> EmptyDict
    [] token = "LIST"          -> Json("list", TRUE, "absent", "absent")
    [] token = "TRUE"          -> Json("bool", TRUE, "absent", "absent")
    [] token = "ONE"           -> Json("int", TRUE, "absent", "absent")
    [] OTHER                   -> InvalidJson

\* json.loads(text): a text parses when, between whitespace, it is one JSON
\* token; a run of the digit 1 is a number
JsonLoadsText(text) ==
  LET stripped == Strip(text)
  IN IF Len(stripped) = 1 THEN JsonOfToken(stripped[1])
     ELSE IF stripped # << >> /\ \A i \in 1..Len(stripped) : stripped[i] = "ONE"
     THEN Json("int", TRUE, "absent", "absent")
     ELSE InvalidJson

\* re.search(r'\{[^}]*\}', text).group(0): the first brace block, cut at its
\* first closing brace, which breaks an object that holds an object
FirstBraceBlock(text) ==
  LET hits == { i \in 1..Len(text) : text[i] \in ObjectTokens }
      block == text[Min(hits)]
  IN IF hits = { } THEN "none"
     ELSE IF block \in { "O_TOC_NESTED", "O_PICK_NESTED" } THEN "O_BROKEN"
     ELSE block

\* LLMUtils.parse_llm_json_response
ParseLlmJsonResponse(raw_response) ==
  LET text1 == Strip(raw_response)
      text2 == IF text1 # << >> /\ text1[1] \in { "FENCE_JSON", "FENCE" }
               THEN Tail(text1) ELSE text1
      text3 == IF text2 # << >> /\ text2[Len(text2)] = "FENCE"
               THEN SubSeq(text2, 1, Len(text2) - 1) ELSE text2
      text == Strip(text3)
      whole == JsonLoadsText(text)
      block == FirstBraceBlock(text)
  IN IF whole.kind # "invalid" THEN whole
     ELSE IF block # "none" /\ JsonOfToken(block).kind # "invalid"
     THEN JsonOfToken(block)
     ELSE EmptyDict

\* the truth value Python gives a parsed reply: true, 1, a non-empty dict or
\* list
JsonTruthy(value) == value.filled

\* an answer of the completion model: the call raises, or the message has
\* the given content
LlmAnswer(raises, content) == [raises |-> raises, content |-> content]

(* ------------------------- ChunkSelector ------------------------------- *)
\* re.search(r'option(\d+)', selection) and int(): the number of the first
\* option the text names, NoneInt when it names none
OptionNumber(selection) ==
  CASE selection = "OPTION_0" -> 0
    [] selection = "OPTION_1" -> 1
    [] selection = "OPTION_2" -> 2
    [] selection = "OPTION_9" -> 9
    [] OTHER -> NoneInt

\* the pair (index, no_match) _parse_selection_result returns; index counts
\* from 0 and is NoneInt for None
Selection(index, no_match) == [index |-> index, no_match |-> no_match]

\* _parse_selection_result reading the no-match sentence as a reply without
\* a selection
ParseSelectionResultMergingOutcomes(raw_response, total_candidates) ==
  LET parsed == ParseLlmJsonResponse(raw_response)
      option_num == OptionNumber(parsed.best)
      index == option_num - 1
  IN IF ~JsonTruthy(parsed) THEN Selection(NoneInt, FALSE)
     ELSE IF parsed.kind # "dict" \/ parsed.best = "INT_1"
     THEN Selection(NoneInt, FALSE)
     ELSE IF option_num # NoneInt /\ 0 <= index /\ index < total_candidates
     THEN Selection(index, FALSE)
     ELSE Selection(NoneInt, FALSE)

\* ChunkSelector._parse_selection_result; result.get of a value that is no
\* dict and .strip() of a number raise inside its try
ParseSelectionResult(raw_response, total_candidates) ==
  LET parsed == ParseLlmJsonResponse(raw_response)
      option_num == OptionNumber(parsed.best)
      index == option_num - 1
  IN IF ~JsonTruthy(parsed) THEN Selection(NoneInt, FALSE)
     ELSE IF parsed.kind # "dict" \/ parsed.best = "INT_1"
     THEN Selection(NoneInt, FALSE)
     ELSE IF parsed.best = "NO_MATCH" THEN Selection(NoneInt, TRUE)
     ELSE IF option_num # NoneInt /\ 0 <= index /\ index < total_candidates
     THEN Selection(index, FALSE)
     ELSE Selection(NoneInt, FALSE)

\* ChunkSelector._call_llm_for_selection: the stripped content, the empty
\* text when the call raises (a message without content raises at .strip())
CallLlmForSelection(answer) ==
  IF answer.raises THEN << >> ELSE Strip(answer.content)

\* what select_best_chunk returns and leaves behind: the chunk, the
\* last_selection_note and the calls of the completion model it made
Selected(best_chunk, note, calls) ==
  [best_chunk |-> best_chunk, note |-> note, calls |-> calls]

\* select_best_chunk asking the completion model about a single candidate too
SelectBestChunkAlwaysAsking(candidate_results, intent, answer) ==
  IF candidate_results = << >>
  THEN Selected(NoChunk,
                IF intent = "title" THEN "NO_CANDIDATES_GIVEN" ELSE NoneStr, << >>)
  ELSE IF intent # "title"
  THEN Selected(candidate_results[1], NoneStr, << >>)
  ELSE LET selection_result == CallLlmForSelection(answer)
           selection == ParseSelectionResult(selection_result,
                                             Len(candidate_results))
       IN IF selection.no_match
          THEN Selected(NoChunk, "TITLE_NOT_SELECTED", << "completion" >>)
          ELSE IF selection.index # NoneInt
          THEN Selected(candidate_results[selection.index + 1], NoneStr,
                        << "completion" >>)
          ELSE Selected(candidate_results[1], NoneStr, << "completion" >>)

\* ChunkSelector.select_best_chunk
SelectBestChunk(candidate_results, intent, answer) ==
  IF candidate_results = << >>
  THEN Selected(NoChunk,
                IF intent = "title" THEN "NO_CANDIDATES_GIVEN" ELSE NoneStr, << >>)
  ELSE IF Len(candidate_results) = 1
  THEN Selected(candidate_results[1], NoneStr, << >>)
  ELSE IF intent # "title"
  THEN Selected(candidate_results[1], NoneStr, << >>)
  ELSE LET selection_result == CallLlmForSelection(answer)
           selection == ParseSelectionResult(selection_result,
                                             Len(candidate_results))
       IN IF selection.no_match
          THEN Selected(NoChunk, "TITLE_NOT_SELECTED", << "completion" >>)
          ELSE IF selection.index # NoneInt
          THEN Selected(candidate_results[selection.index + 1], NoneStr,
                        << "completion" >>)
          ELSE Selected(candidate_results[1], NoneStr, << "completion" >>)

(* =================== the title selector on its own ===================== *)
\* the chunks of the file the candidates come from
SelectorFile == [i \in 1..(MaxResults + 1) |-> Chunk(i - 1, << i >>, "t")]

\* the first n candidates of the retrieval, best first: the rank order is
\* the reverse of the chunk order
Ranked(n) == [i \in 1..n |-> SelectorFile[MaxResults + 2 - i]]

SelectorTokens ==
  { "SP", "FENCE_JSON", "FENCE", "x", "O_PICK_0", "O_PICK_1", "O_PICK_2", "O_PICK_9",
    "O_PICK_NONE", "O_PICK_INT", "O_PICK_NESTED", "O_OTHER", "O_EMPTY", "O_BROKEN",
    "LIST" }

\* the answer of a completion model that is not asked
NoAnswer == LlmAnswer(TRUE, << >>)

\* the answers of the completion model to the selection prompt
SelectorAnswers ==
  { NoAnswer }
  \cup { LlmAnswer(FALSE, content) : content \in ListsOf(SelectorTokens, MaxReplyLen) }

\* a call of select_best_chunk; _search_general_content makes it for the
\* title intent with at least one candidate
SelectBestChunkCall(candidate_results, intent) ==
  [op |-> "select_best_chunk", candidate_results |-> candidate_results,
   all_chunks |-> SelectorFile, intent |-> intent]

\* select_best_chunk runs; the completion model answers when it is asked
CallSelectBestChunk ==
  /\ u_call.op = "select_best_chunk"
  /\ u_pc = "called"
  /\ LET asked ==
           SelectBestChunk(u_call.candidate_results, u_call.intent, NoAnswer).calls
     IN \E answer \in IF asked = << >> THEN { NoAnswer } ELSE SelectorAnswers :
          LET selected ==
                SelectBestChunk(u_call.candidate_results, u_call.intent, answer)
          IN /\ u_calls' = [i \in 1..Len(selected.calls) |->
                              [backend |-> selected.calls[i], answer |-> answer]]
             /\ u_result' = [best_chunk |-> selected.best_chunk,
                             note |-> selected.note,
                             response |-> NoSearchResult]
  /\ u_pc' = "returned"
  /\ UNCHANGED << u_call, dvars, svars >>

\* the title branch of _search_general_content after select_best_chunk
TitleBranch ==
  /\ u_call.op = "select_best_chunk"
  /\ u_pc = "returned"
  /\ u_call.intent = "title"
  /\ u_call.candidate_results # << >>
  /\ u_result' =
       [u_result EXCEPT !.response =
          IF u_result.best_chunk = NoChunk
          THEN CreateErrorResult(IF u_result.note # NoneStr THEN u_result.note
                                 ELSE "TITLE_NOT_SELECTED",
                                 "title")
          ELSE CreateTitleSuccessResult(
                 "FILE",
                 PrepareExpandedResults(<< u_result.best_chunk >>,
                                        u_call.all_chunks, 0, 0))]
  /\ u_pc' = "done"
  /\ UNCHANGED << u_call, u_calls, dvars, svars >>

InitSelector ==
  /\ DriverOff
  /\ SearchOff
  /\ \E n \in 0..MaxResults, intent \in { "title", "content" } :
       u_call = SelectBestChunkCall(Ranked(n), intent)
  /\ u_pc = "called"
  /\ u_calls = << >>
  /\ u_result = << >>

NextSelector ==
  \/ CallSelectBestChunk
  \/ TitleBranch

SpecSelector == InitSelector /\ [][NextSelector]_vars

(* ------------------------------- C21 ----------------------------------- *)
\* select_best_chunk has returned
SelectorReturned ==
  u_call.op = "select_best_chunk" /\ u_pc \in { "returned", "done" }

\* C21: the selector called with exactly one candidate returns that
\* candidate, and the completion model is not called
C21_SingleCandidateWithoutModelCall ==
  (SelectorReturned /\ Len(u_call.candidate_results) = 1)
    => /\ u_result.best_chunk = u_call.candidate_results[1]
       /\ u_calls = << >>

\* C21 witness: a title selection among one candidate has returned it
C21_Witness ==
  /\ SelectorReturned
  /\ u_call.intent = "title"
  /\ Len(u_call.candidate_results) = 1
  /\ u_result.best_chunk = Ranked(1)[1]
  /\ u_calls = << >>

(* ------------------------------- C23 ----------------------------------- *)
\* the completion model was asked to select among several title candidates
SelectionAsked ==
  /\ SelectorReturned
  /\ u_call.intent = "title"
  /\ Len(u_call.candidate_results) >= 2
  /\ Len(u_calls) = 1

\* the brace blocks of the reply, in their order
ReplyObjects(answer) ==
  LET IsObject_(token) == token \in ObjectTokens
  IN SelectSeq(answer.content, IsObject_)

\* the reply carries the no-match sentence and no other object
SentinelReply(answer) ==
  ~answer.raises /\ ReplyObjects(answer) = << "O_PICK_NONE" >>

\* the reply cannot be read as a selection among n candidates: the call
\* failed, the reply has no object, or each of its objects is broken, has no
\* selection, has a number for one, or names an option outside 1..n
MalformedSelection(answer, n) ==
  \/ answer.raises
  \/ \A i \in 1..Len(ReplyObjects(answer)) :
       \/ ReplyObjects(answer)[i]
            \in { "O_BROKEN", "O_OTHER", "O_EMPTY", "O_PICK_INT", "O_PICK_0" }
       \/ ReplyObjects(answer)[i] = "O_PICK_1" /\ n < 1
       \/ ReplyObjects(answer)[i] \in { "O_PICK_2", "O_PICK_NESTED" } /\ n < 2
       \/ ReplyObjects(answer)[i] = "O_PICK_9" /\ n < 9

\* the members of a list
Members(list) == { list[i] : i \in 1..Len(list) }

\* C23: among two or more title candidates a malformed reply, an ordinal out
\* of range and a failed call give the top-ranked candidate, the no-match
\* sentence gives None, which the search answers with an error; what is
\* returned is always None or one of the candidates
C23_FallbackAndSentinelAreDistinct ==
  SelectionAsked =>
    LET answer == u_calls[1].answer
        candidates == u_call.candidate_results
    IN /\ MalformedSelection(answer, Len(candidates))
            => u_result.best_chunk = candidates[1]
       /\ SentinelReply(answer) => u_result.best_chunk = NoChunk
       /\ u_result.best_chunk \in { NoChunk } \cup Members(candidates)
       /\ (u_pc = "done" /\ u_result.best_chunk = NoChunk)
            => /\ u_result.response.success = FALSE
               /\ u_result.response.error # NoneStr
       /\ (u_pc = "done" /\ u_result.best_chunk # NoChunk)
            => u_result.response.success = TRUE

\* C23 witness: a fenced reply that names an option out of range has given
\* the top-ranked candidate, and the search has answered with a success
C23_Witness ==
  /\ SelectionAsked
  /\ u_pc = "done"
  /\ u_calls[1].answer = LlmAnswer(FALSE, << "FENCE_JSON", "O_PICK_9", "FENCE" >>)
  /\ u_result.best_chunk = u_call.candidate_results[1]
  /\ u_result.response.success = TRUE
(* ----------------- the catalog classifier of DirectorySearcher ---------- *)
\* LLMUtils.normalize_yes_value of a text: str(value).lower().strip() is one
\* of the four affirmative words; lower() turns the words written with
\* capital letters into their lower-case tokens and leaves the rest
NormalizeYesValue(value) ==
  LET LowerToken(token) ==
        CASE token = "YES_CAP"  -> "YES"
          [] token = "TRUE_CAP" -> "TRUE"
          [] OTHER              -> token
      lowered == [i \in 1..Len(value) |-> LowerToken(value[i])]
      value_str == Strip(lowered)
  IN value_str \in { << "YES_ZH" >>, << "YES" >>, << "TRUE" >>, << "ONE" >> }

\* what a call of the classifier gives its caller: a truth value, or an
\* exception
Verdict(value, raised) == [value |-> value, raised |-> raised]

\* _is_directory_chunk_by_llm without its try: result.get of a reply that
\* parses to a list, true or a number raises AttributeError
IsDirectoryChunkByLlmUncaught(answer) ==
  IF answer.raises THEN Verdict(FALSE, TRUE)
  ELSE LET raw_response == Strip(answer.content)
           parsed == ParseLlmJsonResponse(raw_response)
           is_directory == parsed.is_toc
       IN IF parsed.kind # "dict" THEN Verdict(FALSE, TRUE)
          ELSE IF is_directory # "absent"
          THEN Verdict(NormalizeYesValue(<< is_directory >>), FALSE)
          ELSE Verdict(NormalizeYesValue(raw_response), FALSE)

\* _is_directory_chunk_by_llm accepting every reply that parses to a dict
IsDirectoryChunkByLlmLenient(answer) ==
  IF answer.raises THEN Verdict(FALSE, FALSE)
  ELSE Verdict(ParseLlmJsonResponse(Strip(answer.content)).kind = "dict", FALSE)

\* DirectorySearcher._is_directory_chunk_by_llm: the exceptions of the call,
\* of .strip() of a message without content and of result.get of a reply
\* that is no dict end in `return False`
IsDirectoryChunkByLlm(answer) ==
  IF answer.raises THEN Verdict(FALSE, FALSE)
  ELSE LET raw_response == Strip(answer.content)
           parsed == ParseLlmJsonResponse(raw_response)
           is_directory == parsed.is_toc
       IN IF parsed.kind # "dict" THEN Verdict(FALSE, FALSE)
          ELSE IF is_directory # "absent"
          THEN Verdict(NormalizeYesValue(<< is_directory >>), FALSE)
          ELSE Verdict(NormalizeYesValue(raw_response), FALSE)

(* ================ the catalog pipeline on its own ====================== *)
(***************************************************************************)
(* The text of a chunk of the catalog pipeline is "MU_LU" (it holds both   *)
(* catalog characters), "MU" (it holds one of them) or "t" (none).         *)
(***************************************************************************)
\* "目" in text and "录" in text
HasCatalogKeywords(text) == text = "MU_LU"

\* the candidates of get_directory_content without the test for the two
\* catalog characters
DirectoryCandidatesOfAnyText(hits) == SortByChunkId(hits)

\* the candidates of get_directory_content: the hits in ascending chunk_id
\* that hold both catalog characters
DirectoryCandidates(hits) ==
  LET IsCandidate(h) == HasCatalogKeywords(h.text)
  IN SelectSeq(SortByChunkId(hits), IsCandidate)

\* the position in hits of the k-th candidate
HitIndex(hits, k) ==
  CHOOSE i \in 1..Len(hits) : hits[i] = DirectoryCandidates(hits)[k]

ClassifierTokens ==
  { "SP", "FENCE_JSON", "FENCE", "x", "O_TOC_YES", "O_TOC_NO", "O_TOC_YES_CAP",
    "O_TOC_NESTED", "O_OTHER", "O_EMPTY", "O_BROKEN", "LIST", "YES_ZH", "NO_ZH",
    "YES", "YES_CAP", "TRUE", "TRUE_CAP", "ONE" }

\* the answers of the completion model to one classification prompt
ClassifierAnswers ==
  { NoAnswer }
  \cup { LlmAnswer(FALSE, content) : content \in ListsOf(ClassifierTokens, MaxReplyLen) }

\* the answers of the completion model to the prompts of one run of the
\* pipeline
PipelineAnswers ==
  { NoAnswer }
  \cup { LlmAnswer(FALSE, content) :
           content \in { << "O_TOC_YES" >>, << "O_TOC_NO" >>, << "YES_ZH" >>,
                         << "x", "O_TOC_YES" >>, << "O_OTHER" >> } }

\* the hits _get_file_chunks_from_es returns for the file: chunks with the
\* chunk_ids 0, 1, ... in ascending order
RECURSIVE DirectoryHits(_)
DirectoryHits(n) ==
  IF n = 0 THEN { << >> }
  ELSE DirectoryHits(n - 1)
       \cup { Append(hits, Chunk(Len(hits), << Len(hits) + 1 >>, text)) :
                hits \in { h \in DirectoryHits(n - 1) : Len(h) = n - 1 },
                text \in { "MU_LU", "MU", "t" } }

\* one classification on its own
CallIsDirectoryChunkByLlm ==
  /\ u_call.op = "is_directory_chunk_by_llm"
  /\ u_pc = "called"
  /\ \E answer \in ClassifierAnswers :
       /\ u_calls' = << [backend |-> "completion", chunk_id |-> NoneInt,
                         answer |-> answer,
                         positive |-> IsDirectoryChunkByLlm(answer).value] >>
       /\ u_result' = IsDirectoryChunkByLlm(answer)
  /\ u_pc' = IF u_result'.raised THEN "raised" ELSE "returned"
  /\ UNCHANGED << u_call, dvars, svars >>

\* get_directory_content up to its loop over the candidates
GetDirectoryHits ==
  /\ u_call.op = "get_directory_content"
  /\ u_pc = "called"
  /\ IF u_call.hits = << >>
     THEN /\ u_result' = DirCreateErrorResult("NO_CHUNKS_IN_INDEX")
          /\ u_pc' = "done"
     ELSE IF DirectoryCandidates(u_call.hits) = << >>
     THEN /\ u_result' = DirCreateErrorResult("NO_CATALOG_KEYWORD")
          /\ u_pc' = "done"
     ELSE /\ u_pc' = "checking"
          /\ UNCHANGED u_result
  /\ UNCHANGED << u_call, u_calls, dvars, svars >>

\* one round of the loop of get_directory_content: the classifier is asked
\* about the next candidate; a positive answer ends the loop, and so does the
\* last candidate
CheckCandidate ==
  /\ u_call.op = "get_directory_content"
  /\ u_pc = "checking"
  /\ LET candidates == DirectoryCandidates(u_call.hits)
         k == Len(u_calls) + 1
     IN \E answer \in PipelineAnswers :
          LET verdict == IsDirectoryChunkByLlm(answer)
          IN /\ u_calls' = Append(u_calls,
                                  [backend |-> "completion",
                                   chunk_id |-> candidates[k].chunk_id,
                                   answer |-> answer,
                                   positive |-> verdict.value])
             /\ IF verdict.raised
                THEN /\ u_result' = DirCreateErrorResult("CATALOG_EXCEPTION")
                     /\ u_pc' = "done"
                ELSE IF verdict.value
                THEN /\ u_result' =
                          GetDirectoryContent(
                            u_call.hits,
                            [kind |-> "identified",
                             index |-> HitIndex(u_call.hits, k)],
                            "FILE")
                     /\ u_pc' = "done"
                ELSE IF k = Len(candidates)
                THEN /\ u_result' =
                          GetDirectoryContent(
                            u_call.hits, [kind |-> "not_identified", index |-> 0],
                            "FILE")
                     /\ u_pc' = "done"
                ELSE /\ u_pc' = "checking"
                     /\ UNCHANGED u_result
  /\ UNCHANGED << u_call, dvars, svars >>

InitDirectory ==
  /\ DriverOff
  /\ SearchOff
  /\ \/ u_call = [op |-> "is_directory_chunk_by_llm"]
     \/ \E hits \in DirectoryHits(MaxChunks + 1) :
          u_call = [op |-> "get_directory_content", hits |-> hits]
  /\ u_pc = "called"
  /\ u_calls = << >>
  /\ u_result = << >>

NextDirectory ==
  \/ CallIsDirectoryChunkByLlm
  \/ GetDirectoryHits
  \/ CheckCandidate

SpecDirectory == InitDirectory /\ [][NextDirectory]_vars

(* ------------------------------- C22 ----------------------------------- *)
\* the classifier was called on its own and its call has ended
ClassifierEnded ==
  u_call.op = "is_directory_chunk_by_llm" /\ u_pc \in { "returned", "raised" }

\* the replies the classifier is made for: a JSON object with the expected
\* key, bare, fenced or wrapped in other text, or a bare affirmative word
\* in any case, with or without white space around it
WellFormedReply(content) ==
  \/ /\ ReplyObjects(LlmAnswer(FALSE, content)) # << >>
     /\ ReplyObjects(LlmAnswer(FALSE, content))[1]
          \in { "O_TOC_YES", "O_TOC_NO", "O_TOC_YES_CAP", "O_TOC_NESTED" }
  \/ /\ Len(Strip(content)) = 1
     /\ Strip(content)[1] \in { "YES_ZH", "YES", "YES_CAP", "TRUE", "TRUE_CAP", "ONE" }

\* C22: the classifier does not raise, and it returns false when the call of
\* the completion model fails and for every reply that is neither a JSON
\* object with the expected key (bare, fenced or wrapped) nor a bare
\* affirmative word; with several objects in the reply the first one
\* counts. A bare affirmative word that is no JSON literal is answered
\* with true in any case and with white space around it.
C22_MalformedReplyIsNotACatalog ==
  ClassifierEnded =>
    LET answer == u_calls[1].answer
    IN /\ u_pc = "returned"
       /\ ~u_result.raised
       /\ (answer.raises \/ ~WellFormedReply(answer.content))
            => u_result.value = FALSE
       /\ (/\ ~answer.raises
           /\ Len(Strip(answer.content)) = 1
           /\ Strip(answer.content)[1] \in { "YES_ZH", "YES", "YES_CAP", "TRUE_CAP" })
            => u_result.value = TRUE

\* C22 witness: a reply that parses to a JSON array, on which result.get
\* raises, was answered with false
C22_Witness ==
  /\ ClassifierEnded
  /\ u_calls[1].answer = LlmAnswer(FALSE, << "FENCE_JSON", "LIST", "FENCE" >>)
  /\ u_result = Verdict(FALSE, FALSE)

(* ------------------------------- C24 ----------------------------------- *)
\* the catalog pipeline runs or has run
PipelineCalled == u_call.op = "get_directory_content"

\* the chunk_ids of the hits whose text holds both catalog characters
KeywordChunkIds ==
  { u_call.hits[i].chunk_id :
      i \in { j \in 1..Len(u_call.hits) : u_call.hits[j].text = "MU_LU" } }

\* the k smallest elements of a set of numbers, in ascending order
RECURSIVE Ascending(_, _)
Ascending(S, k) ==
  IF k = 0 \/ S = { } THEN << >>
  ELSE << Min(S) >> \o Ascending(S \ { Min(S) }, k - 1)

\* the chunk_ids the classifier was asked about, in the order of the calls
AskedChunkIds == [i \in 1..Len(u_calls) |-> u_calls[i].chunk_id]

\* C24: the classifier is asked about the chunks with both catalog characters
\* in ascending chunk_id, one at a time, and no more after the first positive
\* answer: the catalog starts at the lowest candidate classified positive, and
\* when every candidate was classified negative the pipeline answers that no
\* catalog chunk was identified
C24_ClassifierStopsAtFirstPositive ==
  PipelineCalled =>
    /\ AskedChunkIds = Ascending(KeywordChunkIds, Len(u_calls))
    /\ \A i \in 1..(Len(u_calls) - 1) : ~u_calls[i].positive
    /\ (u_pc = "checking" /\ u_calls # << >>) => ~Last(u_calls).positive
    /\ (u_pc = "done" /\ u_result.success)
         => /\ u_calls # << >>
            /\ Last(u_calls).positive
            /\ u_result.start_chunk_id = Last(u_calls).chunk_id
    /\ (u_pc = "done" /\ KeywordChunkIds # { }
        /\ \A i \in 1..Len(u_calls) : ~u_calls[i].positive)
         => /\ Len(u_calls) = Cardinality(KeywordChunkIds)
            /\ u_result.success = FALSE
            /\ u_result.error = "CATALOG_NOT_IDENTIFIED"

\* C24 witness: the second of three candidates was classified positive, the
\* third was not asked about
C24_Witness ==
  /\ PipelineCalled
  /\ u_pc = "done"
  /\ Cardinality(KeywordChunkIds) >= 3
  /\ Len(u_calls) = 2
  /\ ~u_calls[1].positive
  /\ u_calls[2].positive
  /\ u_result.success
  /\ u_result.start_chunk_id = u_calls[2].chunk_id

(* ============ the general retrieval for given candidates =============== *)
\* the queries of a general retrieval with a description
DescribedQueries ==
  { Str(<< "x" >>), Str(<< "CONTENT_FW", "x" >>), Str(<< "TITLE_FW", "x" >>) }

\* the chunk_range _search_general_content hands to _execute_search: None
\* (NoneInt twice) without bounds, else the chunk_ids of the chunks in range
ChunkRangeLimits(all_chunks, range) ==
  IF \A i \in 1..4 : range[i] = NoneInt THEN << NoneInt, NoneInt >>
  ELSE GetChunkIdRange(
         ApplyRangeLimitations(all_chunks, range[1], range[2], range[3], range[4]))

\* the chunks the filter of the searchers lets through: chunk_id >= and <=
\* the limits that are given
HitsInRange(all_chunks, limits) ==
  LET Passes(chunk) ==
        /\ limits[1] # NoneInt => chunk.chunk_id >= limits[1]
        /\ limits[2] # NoneInt => chunk.chunk_id <= limits[2]
  IN SelectSeq(all_chunks, Passes)

\* the candidate lists _execute_search can return: up to n different chunks
\* of the hits, in any rank
RECURSIVE RankedHits(_, _)
RankedHits(hits, n) ==
  IF n = 0 THEN { << >> }
  ELSE LET shorter == RankedHits(hits, n - 1)
           Fresh(found, i) == \A k \in 1..Len(found) : found[k] # hits[i]
       IN shorter
          \cup UNION { { Append(found, hits[i]) : i \in { j \in 1..Len(hits) : Fresh(found, j) } } :
                         found \in { f \in shorter : Len(f) = n - 1 } }

\* a call of _search_general_content on a file with chunks
GeneralContentCall(search_info, all_chunks, range, expand) ==
  [op |-> "search_general_content",
   params |-> SearchParams(<< "F" >>, search_info, range, expand),
   all_chunks |-> all_chunks]

\* _search_general_content: with bounds that leave no chunk of the file it
\* returns its error before _execute_search, and no searcher is called;
\* otherwise the searcher answers with candidates inside the chunk_range
\* (top_k = 10 is above the number of chunks of the files, so with any
\* number of them, in any rank), and the selector (asked about several
\* title candidates) with one of them or None
CallSearchGeneralContent ==
  /\ u_call.op = "search_general_content"
  /\ u_pc = "called"
  /\ LET p == u_call.params
         range == << p.start_page, p.end_page, p.start_chunk_id, p.end_chunk_id >>
         range_given == \E i \in 1..4 : range[i] # NoneInt
         range_chunks ==
           ApplyRangeLimitations(u_call.all_chunks, p.start_page, p.end_page,
                                 p.start_chunk_id, p.end_chunk_id)
         limits == ChunkRangeLimits(u_call.all_chunks, range)
         hits == HitsInRange(u_call.all_chunks, limits)
     IN IF range_given /\ range_chunks = << >>
        THEN /\ u_calls' = << >>
             /\ u_result' = GeneralContent(p, "FILE", u_call.all_chunks, << >>,
                                           1, "none", FALSE).result
        ELSE \E found \in RankedHits(hits, Len(hits)) :
               \E selected \in IF ParseSearchIntent(p.search_info).intent = "title"
                                  /\ Len(found) >= 2
                               THEN 0..Len(found) ELSE { 1 } :
                 /\ u_calls' = << [backend |-> "searcher", found |-> found] >>
                 /\ u_result' = GeneralContent(p, "FILE", u_call.all_chunks, found,
                                               selected, "none", FALSE).result
  /\ u_pc' = "returned"
  /\ UNCHANGED << u_call, dvars, svars >>

\* the files of the general retrieval on its own: the documents of
\* FileChunkLists, and one whose first chunk has no page number and whose
\* second chunk lies before the pages of the third, so that page bounds
\* can leave the first and the third chunk and not the one between them.
\* The bounds are those that pass _validate_parameters
InitContent ==
  /\ DriverOff
  /\ SearchOff
  /\ \E search_info \in DescribedQueries,
        all_chunks \in (FileChunkLists \ { << >> })
                       \cup { << Chunk(0, << NotANumber >>, "t0"),
                                 Chunk(1, << 1 >>, "t1"),
                                 Chunk(2, << 2, 3 >>, "t2") >> } :
       \E range \in RangeArgs, expand \in ExpandArgs :
         /\ ValidateParameters(<< "F" >>, search_info, range[1], range[2],
                               range[3], range[4]) = "valid"
         /\ u_call = GeneralContentCall(search_info, all_chunks, range, expand)
  /\ u_pc = "called"
  /\ u_calls = << >>
  /\ u_result = << >>

NextContent == CallSearchGeneralContent

SpecContent == InitContent /\ [][NextContent]_vars

(* ------------------------------- C25 ----------------------------------- *)
\* a retrieval with the content intent has answered
ContentAnswered ==
  /\ u_call.op = "search_general_content"
  /\ u_pc = "returned"
  /\ u_call.params.search_info.items[1] # "TITLE_FW"

\* the candidates of the searcher that lie within the bounds of the call, in
\* their rank: the chunk_id within the chunk_id bounds, the pages around the
\* page bounds or no page number at all; none when no searcher was called
Survivors ==
  LET p == u_call.params
      Keep(chunk) ==
        /\ Within(chunk.chunk_id, p.start_chunk_id, p.end_chunk_id)
        /\ \/ PagesOf(chunk.page_num) = { }
           \/ /\ p.start_page # NoneInt
                   => \E page \in PagesOf(chunk.page_num) : page >= p.start_page
              /\ p.end_page # NoneInt
                   => \E page \in PagesOf(chunk.page_num) : page <= p.end_page
  IN IF u_calls = << >> THEN << >> ELSE Kept(u_calls[1].found, Keep)

\* the chunks of the file around one candidate, in ascending chunk_id
Neighbourhood(candidate) ==
  LET Near(chunk) ==
        /\ chunk.chunk_id >= candidate.chunk_id - u_call.params.expand_before
        /\ chunk.chunk_id <= candidate.chunk_id + u_call.params.expand_after
  IN SelectSeq(u_call.all_chunks, Near)

\* C25: a retrieval with the content intent answers with one result for each
\* candidate that lies within the bounds, in the rank of the candidates; the
\* i-th result is the i-th candidate with its own neighbours in the file and
\* nothing of the other candidates, and retrieved_count is the number of
\* results; without such a candidate the answer is an error, and when the
\* bounds leave no chunk of the file no searcher is called
C25_ContentExpandsEachCandidateInRank ==
  ContentAnswered =>
    IF Survivors = << >>
    THEN /\ u_result.success = FALSE
         /\ u_calls = << >> <=> u_result.error = "NOTHING_IN_RANGE"
    ELSE /\ u_result.success
         /\ Len(u_result.results) = Len(Survivors)
         /\ u_result.retrieved_count = Len(u_result.results)
         /\ \A i \in 1..Len(Survivors) :
              LET near == Neighbourhood(Survivors[i])
                  entry == u_result.results[i]
              IN /\ entry.text = Str([k \in 1..Len(near) |-> near[k].text])
                 /\ entry.start_chunk_id = near[1].chunk_id
                 /\ entry.end_chunk_id = near[Len(near)].chunk_id

\* C25 witness: with start_page 2 the searcher ranked the third, the
\* second and the first chunk of a file whose first chunk has no page
\* number; the second, on page 1, was dropped, and the other two were
\* expanded by one chunk each: two results in the rank of the searcher
\* that both hold the text of the dropped chunk
C25_Witness ==
  /\ ContentAnswered
  /\ u_result.success
  /\ u_call.params.start_page = 2
  /\ u_call.params.expand_before = 1
  /\ Len(u_calls[1].found) = 3
  /\ u_calls[1].found[1].chunk_id = 2
  /\ u_calls[1].found[2].chunk_id = 1
  /\ u_calls[1].found[3].chunk_id = 0
  /\ Len(Survivors) = 2
  /\ u_result.retrieved_count = 2
  /\ u_result.results[1].text = Str(<< "t1", "t2" >>)
  /\ u_result.results[2].text = Str(<< "t0", "t1" >>)

(* ------------------------------- C26 ----------------------------------- *)
\* apply_range_limitations has returned, whatever its bounds
RangeFilterEnded == u_call.op = "apply_range_limitations" /\ u_pc = "returned"

\* the chunks of a list whose chunk_id lies within the bounds given
IdPass(chunks, lo, hi) ==
  LET Keep(chunk) == Within(chunk.chunk_id, lo, hi)
  IN Kept(chunks, Keep)

\* the chunks of a list without a page number or with pages around the
\* bounds given
PagePass(chunks, lo, hi) ==
  LET Keep(chunk) ==
        \/ PagesOf(chunk.page_num) = { }
        \/ /\ lo # NoneInt => \E page \in PagesOf(chunk.page_num) : page >= lo
           /\ hi # NoneInt => \E page \in PagesOf(chunk.page_num) : page <= hi
  IN Kept(chunks, Keep)

\* the result of the two passes in the order of the code, and in the
\* opposite order
ChunkIdThenPage(chunks, r) == PagePass(IdPass(chunks, r[3], r[4]), r[1], r[2])
PageThenChunkId(chunks, r) == IdPass(PagePass(chunks, r[1], r[2]), r[3], r[4])

\* C26 (as claimed): the order of the two passes is observable: among the
\* chunk lists and bounds the filter is called with there are some for which
\* the page pass followed by the chunk_id pass gives another list than the
\* chunk_id pass followed by the page pass.
C26_OrderIsObservable ==
  u_call.op = "apply_range_limitations" =>
    \E chunks \in ListsOf(RangeChunks, MaxChunks), r \in RangeBounds :
      ChunkIdThenPage(chunks, r) # PageThenChunkId(chunks, r)

\* C26 (amended): the range filter returns what the chunk_id pass followed by
\* the page pass returns, and for every chunk list and bounds the opposite
\* order gives the same list: each pass keeps or drops a chunk by that chunk
\* alone.
C26_PassesCommute ==
  RangeFilterEnded =>
    LET r == << u_call.start_page, u_call.end_page,
                u_call.start_chunk_id, u_call.end_chunk_id >>
    IN /\ u_result = ChunkIdThenPage(u_call.chunks, r)
       /\ u_result = PageThenChunkId(u_call.chunks, r)

\* C26 witness: with both pairs of bounds the first chunk lies within the
\* chunk_id bounds and outside the pages, the second within the pages and
\* outside the chunk_id bounds; none is returned
C26_Witness ==
  /\ RangeFilterEnded
  /\ u_call.start_page = MaxBound /\ u_call.end_page = MaxBound
  /\ u_call.start_chunk_id = 1 /\ u_call.end_chunk_id = MaxBound
  /\ Len(u_call.chunks) = 2
  /\ u_call.chunks[1].chunk_id = 1 /\ u_call.chunks[1].page_num = << 1 >>
  /\ u_call.chunks[2].chunk_id = 0
  /\ u_call.chunks[2].page_num = << 1, MaxBound + 1 >>
  /\ u_result = << >>

(* ------------------------------- C27 ----------------------------------- *)
\* expand_chunks has returned
ExpandEnded == u_call.op = "expand_chunks" /\ u_pc = "returned"

\* C27: expanding the result of an expansion by nothing returns that result,
\* and the merged text of the targets expanded by nothing is the merged text
\* of the targets
C27_ExpandIsIntervalIdempotent ==
  ExpandEnded =>
    /\ ExpandChunks(u_result, u_call.all_chunks, 0, 0) = u_result
    /\ MergeChunksText(ExpandChunks(u_call.target_chunks, u_call.all_chunks, 0, 0))
         = MergeChunksText(u_call.target_chunks)

\* C27 witness: two targets in descending chunk_id, the second of them not
\* among the chunks of the file, were expanded to other chunks than the
\* targets
C27_Witness ==
  /\ ExpandEnded
  /\ Len(u_call.target_chunks) = 2
  /\ u_call.target_chunks[1].chunk_id > u_call.target_chunks[2].chunk_id
  /\ \A i \in 1..Len(u_call.all_chunks) :
       u_call.all_chunks[i] # u_call.target_chunks[2]
  /\ u_call.expand_after > 0
  /\ u_result # << >>
  /\ u_result # u_call.target_chunks

(* ------------------------------- C28 ----------------------------------- *)
\* the text-protocol driver has just read a reply of the model
DSReplyRead == variant = "ds" /\ last_event = "model_replied"

\* the marker that stands first in a text: "TC", "FA" or "none"
FirstMarker(content) ==
  LET marks == { i \in 1..Len(content) : content[i] \in { "TC", "FA" } }
  IN IF marks = { } THEN "none" ELSE content[Min(marks)]

\* C28: the marker that stands first in the reply decides: a reply whose
\* final-answer marker stands before an action marker is not taken as an
\* action, and a reply whose action marker stands first is not taken as a
\* final answer
C28_FirstMarkerInTextDecides ==
  DSReplyRead =>
    LET content == last_reply.content.items
        parsed_type == Last(conversation_rounds).parsed_type
    IN /\ FirstMarker(content) = "FA"
            => parsed_type # "tool_call" /\ pc # "executing_action"
       /\ FirstMarker(content) = "TC"
            => parsed_type # "final_answer" /\ pc # "done"

(* ------------------------------- C29 ----------------------------------- *)
\* the role the text-protocol history holds at position i
DSRoleAt(i) ==
  IF i = 1 THEN "system" ELSE IF i % 2 = 0 THEN "user" ELSE "assistant"

\* the text-protocol driver is about to call the model for another round
DSAboutToCallModel ==
  variant = "ds" /\ pc = "awaiting_model" /\ HasBudget(round_index, max_rounds)

\* C29: the history of the text-protocol driver only grows and alternates:
\* it starts with the system and the user message, every round's assistant
\* message stays where it was appended, assistant and user messages
\* alternate after the first two, and the model call of round k is made on
\* a history of 2 + 2(k - 1) entries that ends with a user message
C29_HistoryAlternatesAndOnlyGrows ==
  variant = "ds" =>
    /\ Len(messages) >= 2
    /\ SubSeq(messages, 1, 2) = InitialMessages
    /\ \A i \in 1..Len(messages) : messages[i].role = DSRoleAt(i)
    /\ \A k \in 1..Len(conversation_rounds) :
         /\ 2 * k + 1 <= Len(messages)
         /\ messages[2 * k + 1] =
              Message("assistant", Str(conversation_rounds[k].response_content))
    /\ Len(conversation_rounds) = round_index \/ last_event = "model_failed"
    /\ DSAboutToCallModel =>
         /\ Len(messages) = 2 + 2 * ((round_index + 1) - 1)
         /\ Last(messages).role = "user"
    /\ pc = "executing_action" =>
         /\ Len(messages) = 2 * round_index + 1
         /\ Last(messages).role = "assistant"

\* the driver is about to make its third model call, after a round that ran
\* the tool and a round that was answered with the format prompt
C29_Witness ==
  /\ DSAboutToCallModel
  /\ round_index = 2
  /\ Len(messages) = 6
  /\ \E i, j \in { 4, 6 } :
       /\ messages[i] \in { DSToolFeedback, DSRetryFeedback }
       /\ Head(messages[j].content.items) = "FORMAT_ERROR"

(* ------------------------------- C30 ----------------------------------- *)
\* the positions of the assistant messages of the history
AssistantPositions ==
  { a \in 1..Len(messages) : messages[a].role = "assistant" }

\* the number of requests recorded in the assistant message at position i
RequestCount(i) == Len(messages[i].tool_calls)

\* the tool message at position j answers the c-th request of the
\* assistant message at position i: it carries the id of the request, and
\* the tool's result or, for an unknown tool, the error observation
Answers(j, i, c) ==
  LET call == messages[i].tool_calls[c]
  IN /\ j <= Len(messages)
     /\ messages[j].role = "tool"
     /\ messages[j].tool_call_id = call.id
     /\ Items(messages[j]) = IF call.name \in ToolRegistry
                             THEN { "TOOL_RESULT" }
                             ELSE { "UNKNOWN_TOOL_ERROR" }

\* the tool message at position j stands in the run of tool messages that
\* follows the assistant message at position i
Follows(j, i) == i < j /\ \A k \in (i + 1)..j : messages[k].role = "tool"

\* the structured driver stands at a model call or has returned
GLMBetweenRounds ==
  variant = "glm" /\ pc \in { "awaiting_model", "done", "failed" }

\* C30: in the structured driver the requests recorded in an assistant
\* message are answered one by one, in their order, by the tool messages
\* that follow it, each carrying the tool_call_id of its request: never
\* more tool messages than requests, and exactly one per request whenever
\* the driver is at a model call or has returned; a request with malformed
\* arguments for the registered tool is answered with the tool's result, a
\* request for an unknown tool with the error observation, and the tool
\* runs only for requests of the registered tool
C30_EveryRequestHasOneToolMessage ==
  variant = "glm" =>
    /\ \A i \in AssistantPositions : \A c \in 1..RequestCount(i) :
         (GLMBetweenRounds \/ i + c <= Len(messages)) => Answers(i + c, i, c)
    /\ \A j \in 1..Len(messages) :
         messages[j].role = "tool"
           => \E i \in AssistantPositions :
                /\ Follows(j, i)
                /\ j - i <= RequestCount(i)
                /\ Answers(j, i, j - i)
    /\ tool_execs =
         Cardinality({ j \in 1..Len(messages) :
                         /\ messages[j].role = "tool"
                         /\ Items(messages[j]) = { "TOOL_RESULT" } })
         + (IF last_event = "tool_raised" THEN 1 ELSE 0)

\* the driver is about to call the model after a round whose two requests
\* ended with one for an unknown tool and a round whose request had
\* malformed arguments, the API having used an id of the first round again
C30_Witness ==
  /\ variant = "glm"
  /\ pc = "awaiting_model"
  /\ HasBudget(round_index, max_rounds)
  /\ \E i, k \in AssistantPositions :
       /\ i < k
       /\ RequestCount(i) = 2
       /\ messages[i].tool_calls[2].name \notin ToolRegistry
       /\ Answers(i + 2, i, 2)
       /\ RequestCount(k) = 1
       /\ messages[k].tool_calls[1].arguments = "malformed"
       /\ Answers(k + 1, k, 1)
       /\ messages[k].tool_calls[1].id = messages[i].tool_calls[1].id

====
